---- MODULE Spec2Model ----
(***************************************************************************)
(* Distributed equi-join of two MetallJsonLines data sets (mjl-merge.cpp). *)
(*                                                                         *)
(* JSON values are tagged records:                                         *)
(*   [t |-> "null"], [t |-> "bool", b |-> ...], [t |-> "int", i |-> ...],  *)
(*   [t |-> "str", s |-> ...], [t |-> "arr", a |-> <<values>>],            *)
(*   [t |-> "obj", o |-> << <<key, value>>, ... >>]  (insertion ordered).  *)
(* uint64 and double values are left out; std::uint64_t arithmetic is kept *)
(* modulo 2^HashBits.                                                      *)
(***************************************************************************)
EXTENDS Integers, Sequences, FiniteSets, TLC

VARIABLES
  args,             \* the invocation arguments (clip.get<...>), lines 588-596
  hashMode,         \* "canonical": computeHash; "constant": a hash that is 0 for every row;
                    \* "no second barrier": computeHash, and line 750 removed
  lhsVec, rhsVec,   \* the input shards per rank, lines 619, 623
  outVec,           \* the output shard per rank, line 831
  pc,               \* each rank's position in ygm_main
  joinIndex,        \* local.joinIndex[2] per rank, line 236
  mergeCandidates,  \* local.mergeCandidates per rank, line 234
  joinData,         \* local.joinData per rank, line 235
  net,              \* ygm messages in flight, per (source, destination)
  errorCode,        \* error_code per rank, line 559
  returned,         \* clip.to_return per rank, lines 890, 896
  opened,           \* the data sets each rank has opened, lines 619, 623, 831
  hin, hout,        \* inputs and results of the functions checked alone
  prev,             \* the run before this one: its hash and its output records
  selCall           \* one call of forAllSelected: its arguments, locals and calls of fn

vars == <<args, hashMode, lhsVec, rhsVec, outVec, pc, joinIndex,
          mergeCandidates, joinData, net, errorCode, returned, opened,
          hin, hout, prev, selCall>>

joinVars == <<args, hashMode, lhsVec, rhsVec, outVec, pc, joinIndex,
              mergeCandidates, joinData, net, errorCode, returned, opened>>

-----------------------------------------------------------------------------
(* Bounds *)

WorldSize == 2

HashBits == 16

Rank == 0 .. (WorldSize - 1)

HashMod == 2 ^ HashBits

-----------------------------------------------------------------------------
(* JSON values *)

JNull == [t |-> "null"]

JBool(x) == [t |-> "bool", b |-> x]

JInt(n) == [t |-> "int", i |-> n]

JStr(x) == [t |-> "str", s |-> x]

JArr(x) == [t |-> "arr", a |-> x]

JObj(x) == [t |-> "obj", o |-> x]

\* obj.find(key): the position of the key in the object, 0 when absent
RECURSIVE FindFrom(_, _, _)
FindFrom(kvs, key, i) ==
  IF i > Len(kvs) THEN 0
  ELSE IF kvs[i][1] = key THEN i
  ELSE FindFrom(kvs, key, i + 1)

Find(kvs, key) == FindFrom(kvs, key, 1)

Contains(kvs, key) == Find(kvs, key) # 0

ValueAt(kvs, key) == kvs[Find(kvs, key)][2]

Keys(kvs) == { kvs[i][1] : i \in 1 .. Len(kvs) }

ObjSetAlwaysAppends(kvs, key, val) == Append(kvs, <<key, val>>)

\* rec[key] = value: overwrite in place when the key exists, append otherwise
ObjSet(kvs, key, val) ==
  IF Contains(kvs, key)
  THEN [kvs EXCEPT ![Find(kvs, key)] = <<key, val>>]
  ELSE Append(kvs, <<key, val>>)

\* operator== / operator!= of JSON values: objects compare by their set of
\* key/value pairs, whatever the order of the keys
RECURSIVE JsonEq(_, _)
JsonEq(v, w) ==
  IF v.t # w.t THEN FALSE
  ELSE IF v.t = "obj"
  THEN /\ Len(v.o) = Len(w.o)
       /\ \A i \in 1 .. Len(v.o) :
            /\ Contains(w.o, v.o[i][1])
            /\ JsonEq(v.o[i][2], ValueAt(w.o, v.o[i][1]))
  ELSE IF v.t = "arr"
  THEN /\ Len(v.a) = Len(w.a)
       /\ \A i \in 1 .. Len(v.a) : JsonEq(v.a[i], w.a[i])
  ELSE v = w

-----------------------------------------------------------------------------
(* Stable hash, lines 89-156 *)

RECURSIVE XorBits(_, _, _)
XorBits(a, b, n) ==
  IF n = 0 THEN 0
  ELSE ((a + b) % 2) + 2 * XorBits(a \div 2, b \div 2, n - 1)

\* 0x9e3779b9 = 40503 * 2^16 + 31161, truncated to HashBits bits
Golden == ((40503 % (2 ^ (HashBits - 16))) * 65536 + 31161) % HashMod

\* boost::hash_combine: seed ^= comp + 0x9e3779b9 + (seed << 6) + (seed >> 2)
\* (sc is the pair <<seed, comp>>, each evaluated once)
HashCombineOf(sc) ==
  XorBits(sc[1], (sc[2] + Golden + ((sc[1] * 64) % HashMod) + (sc[1] \div 4)) % HashMod,
          HashBits)

stableHashCombine(seed, comp) ==
  CHOOSE h \in { HashCombineOf(sc) : sc \in {<<seed, comp>>} } : TRUE

CharCode(c) ==
  CASE c = "a" -> 97 [] c = "b" -> 98 [] c = "j" -> 106 [] c = "k" -> 107
    [] c = "l" -> 108 [] c = "p" -> 112 [] c = "q" -> 113 [] c = "r" -> 114
    [] c = "u" -> 117 [] c = "v" -> 118 [] c = "x" -> 120 [] c = "y" -> 121
    [] c = "z" -> 122 [] c = "_" -> 95 [] OTHER -> 63

\* std::hash<std::string_view>: a byte-wise hash of the characters (FNV-1a
\* shape, truncated to HashBits bits)
RECURSIVE StrHashFrom(_, _, _)
StrHashFrom(str, i, h) ==
  IF i > Len(str) THEN h
  ELSE StrHashFrom(str, i + 1,
                   (XorBits(h, CharCode(SubSeq(str, i, i)), HashBits) * 403) % HashMod)

StrHash(str) == StrHashFrom(str, 1, 40389 % HashMod)

RECURSIVE hashCode(_)
RECURSIVE HashObjFrom(_, _, _)
RECURSIVE HashArrFrom(_, _, _)

\* lines 136-144: the loop over the fields, in the object's iteration order
HashObjFrom(kvs, i, res) ==
  IF i > Len(kvs) THEN res
  ELSE HashObjFrom(kvs, i + 1,
         stableHashCombine(stableHashCombine(res, StrHash(kvs[i][1])),
                           hashCode(kvs[i][2])))

\* lines 149-155: the loop over the elements
HashArrFrom(els, i, res) ==
  IF i > Len(els) THEN res
  ELSE HashArrFrom(els, i + 1, stableHashCombine(res, hashCode(els[i])))

hashCode(val) ==
  CASE val.t = "null" -> 0
    [] val.t = "bool" -> (IF val.b THEN 1 ELSE 0)
    [] val.t = "int"  -> val.i % HashMod
    [] val.t = "str"  -> StrHash(val.s)
    [] val.t = "obj"  -> HashObjFrom(val.o, 1, 0)
    [] val.t = "arr"  -> HashArrFrom(val.a, 1, 0)

\* computeHash, lines 365-387; w is the communicator of the calling rank
RECURSIVE ComputeHashFrom(_, _, _, _)
ComputeHashFrom(kvs, sel, i, res) ==
  IF i > Len(sel) THEN res
  ELSE IF Contains(kvs, sel[i])
  THEN ComputeHashFrom(kvs, sel, i + 1,
                       stableHashCombine(res, hashCode(ValueAt(kvs, sel[i]))))
  ELSE ComputeHashFrom(kvs, sel, i + 1, res)

ComputeHashNullForAbsent(val, sel, w) ==
  LET RECURSIVE Go(_, _)
      Go(i, res) ==
        IF i > Len(sel) THEN res
        ELSE IF Contains(val.o, sel[i])
        THEN Go(i + 1, stableHashCombine(res, hashCode(ValueAt(val.o, sel[i]))))
        ELSE Go(i + 1, stableHashCombine(res, hashCode(JNull)))
  IN Go(1, 0)

computeHash(val, sel, w) == ComputeHashFrom(val.o, sel, 1, 0)

-----------------------------------------------------------------------------
(* Canonical JSON text, lines 349-351 (operator<<) and 355 (bj::parse).      *)
(* The text is kept as its sequence of lexical tokens.                       *)

RECURSIVE PrintValue(_)
RECURSIVE PrintMembers(_, _)
RECURSIVE PrintElems(_, _)

PrintMembers(kvs, i) ==
  IF i > Len(kvs) THEN <<>>
  ELSE (IF i > 1 THEN <<",">> ELSE <<>>)
       \o <<"\"" \o kvs[i][1] \o "\"", ":">> \o PrintValue(kvs[i][2])
       \o PrintMembers(kvs, i + 1)

PrintElems(els, i) ==
  IF i > Len(els) THEN <<>>
  ELSE (IF i > 1 THEN <<",">> ELSE <<>>) \o PrintValue(els[i])
       \o PrintElems(els, i + 1)

PrintValue(val) ==
  CASE val.t = "null" -> <<"null">>
    [] val.t = "bool" -> (IF val.b THEN <<"true">> ELSE <<"false">>)
    [] val.t = "int"  -> <<ToString(val.i)>>
    [] val.t = "str"  -> <<"\"" \o val.s \o "\"">>
    [] val.t = "obj"  -> <<"{">> \o PrintMembers(val.o, 1) \o <<"}">>
    [] val.t = "arr"  -> <<"[">> \o PrintElems(val.a, 1) \o <<"]">>

DigitVal(c) ==
  CASE c = "0" -> 0 [] c = "1" -> 1 [] c = "2" -> 2 [] c = "3" -> 3
    [] c = "4" -> 4 [] c = "5" -> 5 [] c = "6" -> 6 [] c = "7" -> 7
    [] c = "8" -> 8 [] c = "9" -> 9

RECURSIVE ParseDigits(_, _, _)
ParseDigits(tok, i, acc) ==
  IF i > Len(tok) THEN acc
  ELSE ParseDigits(tok, i + 1, 10 * acc + DigitVal(SubSeq(tok, i, i)))

ParseNumber(tok) ==
  IF SubSeq(tok, 1, 1) = "-" THEN 0 - ParseDigits(tok, 2, 0)
  ELSE ParseDigits(tok, 1, 0)

Unquote(tok) == SubSeq(tok, 2, Len(tok) - 1)

\* Each parser returns [v |-> what was parsed, n |-> the next token position]
\* (sub is bound to the result of the inner parse, evaluated once)
RECURSIVE ParseValue(_, _)
RECURSIVE ParseMembers(_, _, _)
RECURSIVE ParseElems(_, _, _)

ParseMembers(toks, pos, acc) ==
  IF toks[pos] = "}" THEN [v |-> JObj(acc), n |-> pos + 1]
  ELSE LET p == IF toks[pos] = "," THEN pos + 1 ELSE pos
       IN CHOOSE res \in { ParseMembers(toks, sub.n, ObjSet(acc, Unquote(toks[p]), sub.v)) :
                             sub \in {ParseValue(toks, p + 2)} } : TRUE

ParseElems(toks, pos, acc) ==
  IF toks[pos] = "]" THEN [v |-> JArr(acc), n |-> pos + 1]
  ELSE LET p == IF toks[pos] = "," THEN pos + 1 ELSE pos
       IN CHOOSE res \in { ParseElems(toks, sub.n, Append(acc, sub.v)) :
                             sub \in {ParseValue(toks, p)} } : TRUE

ParseValue(toks, pos) ==
  LET tok == toks[pos]
  IN CASE tok = "null"  -> [v |-> JNull, n |-> pos + 1]
       [] tok = "true"  -> [v |-> JBool(TRUE), n |-> pos + 1]
       [] tok = "false" -> [v |-> JBool(FALSE), n |-> pos + 1]
       [] tok = "{"     -> ParseMembers(toks, pos + 1, <<>>)
       [] tok = "["     -> ParseElems(toks, pos + 1, <<>>)
       [] OTHER         -> IF SubSeq(tok, 1, 1) = "\""
                           THEN [v |-> JStr(Unquote(tok)), n |-> pos + 1]
                           ELSE [v |-> JInt(ParseNumber(tok)), n |-> pos + 1]

\* buf << data
Serialize(data) == PrintValue(JArr(data))

\* bj::parse(data), then jsdata.as_array()
ParseArray(text) == ParseValue(text, 1).v.a

-----------------------------------------------------------------------------
(* Inputs: the invocations the model runs *)

NoCols == <<>>

Row(kvs) == JObj(kvs)

\* One invocation: the two data sets (before they are split over the ranks),
\* the arguments of lines 588-596, and whether the output location already
\* holds a record.
Invocation(L, R, on, lon, ron, lcols, rcols, lsel, rsel, stale) ==
  [L |-> L, R |-> R, stale |-> stale,
   args |-> [on |-> on, left_on |-> lon, right_on |-> ron,
             left_columns |-> lcols, right_columns |-> rcols,
             left_selected |-> lsel, right_selected |-> rsel]]

K1X == Row(<< <<"k", JInt(1)>>, <<"a", JStr("x")>> >>)
K2Y == Row(<< <<"k", JInt(2)>>, <<"a", JStr("y")>> >>)
K1P == Row(<< <<"k", JInt(1)>>, <<"b", JStr("p")>> >>)
K3Q == Row(<< <<"k", JInt(3)>>, <<"b", JStr("q")>> >>)
K2Q == Row(<< <<"k", JInt(2)>>, <<"b", JStr("q")>> >>)
OAB == JObj(<< <<"a", JInt(1)>>, <<"b", JInt(2)>> >>)
OBA == JObj(<< <<"b", JInt(2)>>, <<"a", JInt(1)>> >>)
OXY == JObj(<< <<"x", JInt(1)>>, <<"y", JInt(2)>> >>)
OYX == JObj(<< <<"y", JInt(2)>>, <<"x", JInt(1)>> >>)

Invocations ==
  << \* an object as join value, its keys in two orders
     Invocation(<< Row(<< <<"k", OXY>> >>) >>,
                << Row(<< <<"k", OYX>> >>), Row(<< <<"k", OXY>> >>) >>,
                <<"k">>, NoCols, NoCols, NoCols, NoCols, <<>>, <<>>, FALSE),
     \* single-column inner join, all columns, output location not empty
     Invocation(<<K1X, K2Y>>, <<K1P, K3Q>>, <<"k">>, NoCols, NoCols,
                NoCols, NoCols, <<>>, <<>>, TRUE),
     \* composite key with different names on the two sides
     Invocation(<< Row(<< <<"u", JInt(1)>>, <<"v", JStr("a")>> >>) >>,
                << Row(<< <<"x", JInt(1)>>, <<"y", JStr("a")>> >>),
                   Row(<< <<"x", JInt(1)>>, <<"y", JStr("b")>> >>) >>,
                NoCols, <<"u", "v">>, <<"x", "y">>, NoCols, NoCols, <<>>, <<>>, FALSE),
     \* several rows with the same key on both sides
     Invocation(<< Row(<< <<"k", JInt(5)>>, <<"a", JStr("x")>> >>),
                   Row(<< <<"k", JInt(5)>>, <<"a", JStr("y")>> >>) >>,
                << Row(<< <<"k", JInt(5)>>, <<"b", JStr("p")>> >>),
                   Row(<< <<"k", JInt(5)>>, <<"b", JStr("q")>> >>) >>,
                <<"k">>, NoCols, NoCols, NoCols, NoCols, <<>>, <<>>, FALSE),
     \* equal hashes, different values: hashCode(0) = hashCode(null)
     Invocation(<< Row(<< <<"k", JInt(0)>>, <<"a", JStr("x")>> >>) >>,
                << Row(<< <<"k", JNull>>, <<"b", JStr("p")>> >>),
                   Row(<< <<"k", JInt(0)>>, <<"b", JStr("q")>> >>) >>,
                <<"k">>, NoCols, NoCols, NoCols, NoCols, <<>>, <<>>, FALSE),
     \* rows without the join column
     Invocation(<< K1X, Row(<< <<"a", JStr("z")>> >>) >>,
                << K1P, Row(<< <<"b", JStr("q")>> >>) >>,
                <<"k">>, NoCols, NoCols, NoCols, NoCols, <<>>, <<>>, FALSE),
     \* projections that leave the join column out
     Invocation(<<K1X, K2Y>>, <<K1P, K2Q>>, <<"k">>, NoCols, NoCols,
                <<"a">>, <<"b">>, <<>>, <<>>, FALSE),
     \* left projection only
     Invocation(<<K1X>>, <<K1P, K3Q>>, NoCols, <<"k">>, <<"k">>,
                <<"a">>, NoCols, <<>>, <<>>, FALSE),
     \* row filters: keys.k == 1 on the left, keys.b == "q" on the right
     Invocation(<<K2Y, K1X>>, <<K1P, K2Q>>, <<"k">>, NoCols, NoCols,
                NoCols, NoCols, << <<"k", JInt(1)>> >>, << <<"b", JStr("q")>> >>, FALSE),
     \* left_on and right_on with a repeated column, on given as well; the
     \* right projection lists one of the right join columns
     Invocation(<< Row(<< <<"u", JInt(1)>>, <<"v", JStr("a")>>, <<"a", JStr("x")>> >>) >>,
                << Row(<< <<"x", JInt(1)>>, <<"y", JStr("a")>>, <<"b", JStr("p")>>,
                          <<"j", JStr("r")>> >>) >>,
                <<"k">>, <<"u", "v", "u">>, <<"x", "y", "x">>,
                <<"a">>, <<"b", "y">>, <<>>, <<>>, FALSE),
     \* left_on given, right_on not: the right side falls back to on
     Invocation(<< Row(<< <<"a", JInt(1)>>, <<"b", JInt(2)>> >>) >>,
                << Row(<< <<"b", JInt(1)>>, <<"a", JInt(7)>> >>),
                   Row(<< <<"b", JInt(2)>>, <<"a", JInt(1)>> >>) >>,
                <<"b">>, <<"a">>, NoCols, NoCols, NoCols, <<>>, <<>>, FALSE),
     \* row filters that leave one matching pair, each behind a filtered row
     Invocation(<<K2Y, K1X>>, <<K2Q, K1P>>, <<"k">>, NoCols, NoCols,
                NoCols, NoCols, << <<"k", JInt(1)>> >>, << <<"b", JStr("p")>> >>, FALSE),
     \* projection lists that name a column twice
     Invocation(<< Row(<< <<"k", JInt(1)>>, <<"a", JStr("x")>>, <<"c", JInt(9)>> >>) >>,
                << K1P >>, <<"k">>, NoCols, NoCols,
                <<"c", "k", "c", "z">>, <<"b", "b">>, <<>>, <<>>, FALSE),
     \* no join columns for the right side
     Invocation(<<K1X>>, <<K1P>>, NoCols, <<"k">>, NoCols,
                NoCols, NoCols, <<>>, <<>>, FALSE),
     \* no join columns for the left side
     Invocation(<<K1X>>, <<K1P>>, NoCols, NoCols, <<"k">>,
                NoCols, NoCols, <<>>, <<>>, TRUE),
     \* join column lists of different lengths
     Invocation(<<K1X>>, <<K1P>>, <<"k">>, <<"k", "a">>, NoCols,
                NoCols, NoCols, <<>>, <<>>, FALSE) >>

\* The rows of a data set that live on rank r, in data set order
RECURSIVE ShardFrom(_, _, _, _)
ShardFrom(tab, place, r, i) ==
  IF i > Len(tab) THEN <<>>
  ELSE (IF place[i] = r THEN <<tab[i]>> ELSE <<>>) \o ShardFrom(tab, place, r, i + 1)

Shard(tab, place, r) == ShardFrom(tab, place, r, 1)

\* A record the output location holds before the join
\* (lsrc and rsrc are history fields: the rows a record was built from)
StaleRec == [rec |-> << <<"old", JInt(9)>> >>, lsrc |-> <<0, 0>>, rsrc |-> <<0, 0>>,
             stale |-> TRUE]

HashModes == {"canonical", "constant"}

EmptyNet == [s \in Rank |-> [d \in Rank |-> <<>>]]

EmptyIndex == [lhsData |-> <<>>, rhsData |-> <<>>]

NoHashIn == [v1 |-> JNull, v2 |-> JNull, sel1 |-> <<>>, sel2 |-> <<>>, w1 |-> 0, w2 |-> 0]

NoHashOut == [op |-> "none", h1 |-> 0, h2 |-> 0]

FirstRun == [run |-> 1, mode |-> "", out |-> <<>>]

\* forAllSelected has not been called
NoSel == [dataset |-> <<>>, predicates |-> <<>>, rank |-> 0, limit |-> 0,
          numrows |-> 0, rownum |-> 0, pos |-> 1, calls |-> <<>>, state |-> "none"]

Init ==
  /\ \E n \in DOMAIN Invocations :
       LET inv == Invocations[n]
       IN /\ args = inv.args
          /\ \E pl \in [DOMAIN inv.L -> Rank], pr \in [DOMAIN inv.R -> Rank] :
               /\ lhsVec = [r \in Rank |-> Shard(inv.L, pl, r)]
               /\ rhsVec = [r \in Rank |-> Shard(inv.R, pr, r)]
          /\ outVec = [r \in Rank |-> IF inv.stale THEN <<StaleRec>> ELSE <<>>]
  /\ hashMode = "canonical"
  /\ pc = [r \in Rank |-> "Init"]
  /\ joinIndex = [r \in Rank |-> EmptyIndex]
  /\ mergeCandidates = [r \in Rank |-> <<>>]
  /\ joinData = [r \in Rank |-> <<>>]
  /\ net = EmptyNet
  /\ errorCode = [r \in Rank |-> 0]
  /\ returned = [r \in Rank |-> ""]
  /\ opened = [r \in Rank |-> {}]
  /\ hin = NoHashIn
  /\ hout = NoHashOut
  /\ prev = FirstRun
  /\ selCall = NoSel

-----------------------------------------------------------------------------
(* Argument processing, lines 598-615 *)

LhsOnPrefersOn == IF args.on # <<>> THEN args.on ELSE args.left_on

lhsOn == IF args.left_on = <<>> THEN args.on ELSE args.left_on

rhsOn == IF args.right_on = <<>> THEN args.on ELSE args.right_on

projLhs == args.left_columns

projRhs == args.right_columns

InSeq(x, seq) == \E i \in 1 .. Len(seq) : seq[i] = x

\* addJoinColumnsToOutput, lines 529-545
RECURSIVE AddJoinColumnsFrom(_, _, _)
AddJoinColumnsFrom(joincol, i, output) ==
  IF i > Len(joincol) THEN output
  ELSE AddJoinColumnsFrom(joincol, i + 1,
         IF InSeq(joincol[i], output) THEN output ELSE Append(output, joincol[i]))

AddJoinColumnsAlways(joincol, output) == AddJoinColumnsFrom(joincol, 1, output)

addJoinColumnsToOutput(joincol, output) ==
  IF output = <<>> THEN output ELSE AddJoinColumnsFrom(joincol, 1, output)

sendListRhs == addJoinColumnsToOutput(rhsOn, projRhs)

ArgErrorNoLengthCheck ==
  IF args.left_on = <<>> /\ args.on = <<>>
  THEN "on-columns unspecified for left frame."
  ELSE IF args.right_on = <<>> /\ args.on = <<>>
  THEN "on-columns unspecified for right frame."
  ELSE ""

\* The exception thrown by lines 600-610, "" when there is none
ArgError ==
  IF args.left_on = <<>> /\ args.on = <<>>
  THEN "on-columns unspecified for left frame."
  ELSE IF args.right_on = <<>> /\ args.on = <<>>
  THEN "on-columns unspecified for right frame."
  ELSE IF Len(lhsOn) # Len(rhsOn)
  THEN "Number of columns of Left_On and Right_on differ"
  ELSE ""

\* lines 619 and 623: the constructor of an input data set returns, or throws
\* when the data set of this rank cannot be opened
OpenOutcomes == {"opened", "left fails", "right fails"}

OpenError(how) ==
  CASE how = "opened"      -> ""
    [] how = "left fails"  -> "cannot open left"
    [] how = "right fails" -> "cannot open right"

OpenedBy(how) ==
  CASE how = "opened"      -> {"left", "right"}
    [] how = "left fails"  -> {}
    [] how = "right fails" -> {"left"}

CaughtEveryRankReturns(r, what) ==
  /\ pc' = [pc EXCEPT ![r] = "FailedLocal"]
  /\ errorCode' = [errorCode EXCEPT ![r] = 1]
  /\ returned' = [returned EXCEPT ![r] = what]

\* lines 893-897: the catch block
Caught(r, what) ==
  /\ pc' = [pc EXCEPT ![r] = "FailedLocal"]
  /\ errorCode' = [errorCode EXCEPT ![r] = 1]
  /\ returned' = [returned EXCEPT ![r] = IF r = 0 THEN what ELSE @]

\* lines 585-624 up to the start of phase 1, and the catch of lines 893-897
Start(r) ==
  /\ pc[r] = "Init"
  /\ IF ArgError # ""
     THEN /\ Caught(r, ArgError)
          /\ UNCHANGED opened
     ELSE \E how \in OpenOutcomes :
            /\ opened' = [opened EXCEPT ![r] = OpenedBy(how)]
            /\ IF how = "opened"
               THEN /\ pc' = [pc EXCEPT ![r] = "Phase1"]
                    /\ UNCHANGED <<errorCode, returned>>
               ELSE Caught(r, OpenError(how))
  /\ UNCHANGED <<args, hashMode, lhsVec, rhsVec, outVec, joinIndex,
                 mergeCandidates, joinData, net, hin, hout, prev, selCall>>

-----------------------------------------------------------------------------
(* Messages *)

MsgsFor(msgs, d) == SelectSeq(msgs, LAMBDA m : m.dest = d)

\* w.async(dest, ...) for every message of msgs that is not for rank r itself,
\* in order; a message for r itself is handled by the local shortcut
Async(r, msgs) ==
  [net EXCEPT ![r] = [d \in Rank |-> IF d = r THEN @[d] ELSE @[d] \o MsgsFor(msgs, d)]]

NetEmpty == \A s \in Rank, d \in Rank : net[s][d] = <<>>

\* A rank runs handlers while it is inside ygm_main
Alive(r) == pc[r] \notin {"FailedLocal", "Aborted", "Done"}

-----------------------------------------------------------------------------
(* Phase 1: the index, lines 243-277, 389-420, 617-667 *)

\* filter(rank, selectionCriteria(obj)): a row passes when every predicate
\* <<column, value>> holds; an absent column reads as null
Passes(row, preds) ==
  \A i \in 1 .. Len(preds) :
    JsonEq(IF Contains(row.o, preds[i][1]) THEN ValueAt(row.o, preds[i][1]) ELSE JNull,
           preds[i][2])

\* at(i): rows are numbered from 0
At(vec, i) == vec[i + 1]

Selected(vec, preds) == { i \in 0 .. (Len(vec) - 1) : Passes(At(vec, i), preds) }

\* line 398: the hash of a row. A run started again with the "constant" hash
\* has computeHash replaced by a function that returns 0 for every row.
HashRow(row, sel, w) ==
  IF hashMode = "constant" THEN 0 ELSE computeHash(row, sel, w)

\* line 262
DestOfOwner(h, rank) == rank

DestOf(h, rank) == h % WorldSize

\* computeMergeInfo: one commJoinHash call per selected row, in row order
RECURSIVE MergeInfoFrom(_, _, _, _, _, _)
MergeInfoFrom(r, vec, preds, colsel, which, rownum) ==
  IF rownum >= Len(vec) THEN <<>>
  ELSE (IF Passes(At(vec, rownum), preds)
        THEN LET hval == HashRow(At(vec, rownum), colsel, r)
             IN << [type |-> "hash", dest |-> DestOf(hval, r), which |-> which,
                    h |-> hval, rank |-> r, idx |-> rownum] >>
        ELSE <<>>)
       \o MergeInfoFrom(r, vec, preds, colsel, which, rownum + 1)

computeMergeInfo(r, vec, preds, colsel, which) ==
  MergeInfoFrom(r, vec, preds, colsel, which, 0)

JoinRegistry(m) == [hash |-> m.h, owner_rank |-> m.rank, owner_index |-> m.idx]

Registered(msgs) == [i \in 1 .. Len(msgs) |-> JoinRegistry(msgs[i])]

StoreElemTwice(index, msgs) ==
  [index EXCEPT
     !.lhsData = @ \o Registered(SelectSeq(msgs, LAMBDA m : m.which = "lhsData"))
                   \o Registered(SelectSeq(msgs, LAMBDA m : m.which = "lhsData")),
     !.rhsData = @ \o Registered(SelectSeq(msgs, LAMBDA m : m.which = "rhsData"))]

\* storeElem for each message of msgs, in order
storeElem(index, msgs) ==
  [index EXCEPT
     !.lhsData = @ \o Registered(SelectSeq(msgs, LAMBDA m : m.which = "lhsData")),
     !.rhsData = @ \o Registered(SelectSeq(msgs, LAMBDA m : m.which = "rhsData"))]

Phase1(r) ==
  /\ pc[r] = "Phase1"
  /\ LET msgs == computeMergeInfo(r, lhsVec[r], args.left_selected, lhsOn, "lhsData")
                 \o computeMergeInfo(r, rhsVec[r], args.right_selected, rhsOn, "rhsData")
     IN /\ joinIndex' = [joinIndex EXCEPT ![r] = storeElem(@, MsgsFor(msgs, r))]
        /\ net' = Async(r, msgs)
  /\ pc' = [pc EXCEPT ![r] = "Barrier1"]
  /\ UNCHANGED <<args, hashMode, lhsVec, rhsVec, outVec, mergeCandidates, joinData,
                 errorCode, returned, hin, hout, prev, opened, selCall>>

\* the handler of lines 271-274
RecvJoinHash(s, d) ==
  /\ Alive(d)
  /\ net[s][d] # <<>>
  /\ Head(net[s][d]).type = "hash"
  /\ joinIndex' = [joinIndex EXCEPT ![d] = storeElem(@, <<Head(net[s][d])>>)]
  /\ net' = [net EXCEPT ![s][d] = Tail(@)]
  /\ UNCHANGED <<args, hashMode, lhsVec, rhsVec, outVec, pc, mergeCandidates, joinData,
                 errorCode, returned, hin, hout, prev, opened, selCall>>

AfterBarrierSkipsPhase2(p) ==
  CASE p = "Barrier1" -> "Phase3" [] p = "Barrier2" -> "Phase3"
    [] p = "Barrier3" -> "Phase4" [] p = "Barrier4" -> "Report"

\* world.barrier(), lines 667, 750, 815, 869: every rank has entered it and
\* every message sent before it has been handled
AfterBarrier(p) ==
  CASE p = "Barrier1" -> "Phase2" [] p = "Barrier2" -> "Phase3"
    [] p = "Barrier3" -> "Phase4" [] p = "Barrier4" -> "Report"

BarrierNoDrain(b) == \A r \in Rank : pc[r] = b

BarrierThirdNoDrain(b) == (\A r \in Rank : pc[r] = b) /\ (b = "Barrier3" \/ NetEmpty)

BarrierIgnoresFailed(b) ==
  /\ \E r \in Rank : pc[r] = b
  /\ \A r \in Rank : pc[r] \in {b, "FailedLocal"}
  /\ NetEmpty

BarrierSecondNoDrain(b) == (\A r \in Rank : pc[r] = b) /\ (b = "Barrier2" \/ NetEmpty)

BarrierReady(b) == (\A r \in Rank : pc[r] = b) /\ NetEmpty

BarrierSecondAbsent(b) == b # "Barrier2"

\* line 750 carries the comment "not needed": a run started again in the
\* mode "no second barrier" has that call removed
BarrierPresent(b) == ~(hashMode = "no second barrier" /\ b = "Barrier2")

Barrier(b) ==
  /\ BarrierPresent(b)
  /\ BarrierReady(b)
  /\ pc' = [r \in Rank |-> AfterBarrier(b)]
  /\ UNCHANGED <<args, hashMode, lhsVec, rhsVec, outVec, joinIndex, mergeCandidates,
                 joinData, net, errorCode, returned, hin, hout, prev, opened, selCall>>

-----------------------------------------------------------------------------
(* Phase 2: candidates, lines 172-194, 279-334, 681-750 *)

ByHashOwner(lhs, rhs) ==
  IF lhs.hash < rhs.hash THEN TRUE
  ELSE IF lhs.hash > rhs.hash THEN FALSE
  ELSE lhs.owner_rank < rhs.owner_rank

\* std::sort(..., ByHashOwner{}): every order of the elements that the
\* comparison allows (the sort is not stable)
SortOutcomes(seq) ==
  LET n == Len(seq)
  IN { [i \in 1 .. n |-> seq[q[i]]] :
         q \in { q0 \in [1 .. n -> 1 .. n] :
                   /\ \A i, j \in 1 .. n : i # j => q0[i] # q0[j]
                   /\ \A i, j \in 1 .. n :
                        i < j => ~ByHashOwner(seq[q0[j]], seq[q0[i]]) } }

\* std::find_if_not(from, lim, pred) over positions from .. lim-1, for the
\* predicates SameHash{key} and "same owner": vals[i] is what the predicate
\* compares with key at position i
FindIfNot(vals, from, lim, key) ==
  IF \E i \in from .. (lim - 1) : vals[i] # key
  THEN CHOOSE i \in from .. (lim - 1) :
         /\ vals[i] # key
         /\ \A j \in from .. (i - 1) : vals[j] = key
  ELSE lim

Hashes(seq) == [i \in 1 .. Len(seq) |-> seq[i].hash]

OwnerRanks(seq) == [i \in 1 .. Len(seq) |-> seq[i].owner_rank]

OwnersAllSame(seq) == [i \in 1 .. Len(seq) |-> seq[1].owner]

Owners(seq) == [i \in 1 .. Len(seq) |-> seq[i].owner]

packLeftInfo(seq, beg, lim) ==
  [i \in 1 .. (lim - beg) |->
     [owner |-> seq[beg + i - 1].owner_rank, index |-> seq[beg + i - 1].owner_index]]

PackRightInfoFirstOnly(seq, beg, lim) == << seq[beg].owner_index >>

packRightInfo(seq, beg, lim) ==
  [i \in 1 .. (lim - beg) |-> seq[beg + i - 1].owner_index]

RECURSIVE OwnerGroupsToNeighbour(_, _, _, _)
OwnerGroupsToNeighbour(rs, rsbeg, rseqr, lhsJoinData) ==
  IF rsbeg >= rseqr THEN <<>>
  ELSE LET dest  == rs[rsbeg].owner_rank
           rsdst == FindIfNot(OwnerRanks(rs), rsbeg + 1, rseqr, dest)
       IN << [type |-> "cand", dest |-> (dest + 1) % WorldSize,
              ri |-> packRightInfo(rs, rsbeg, rsdst), li |-> lhsJoinData] >>
          \o OwnerGroupsToNeighbour(rs, rsdst, rseqr, lhsJoinData)

\* lines 719-735: one commJoinCandidates call per owner group of the right run
RECURSIVE OwnerGroups(_, _, _, _)
OwnerGroups(rs, rsbeg, rseqr, lhsJoinData) ==
  IF rsbeg >= rseqr THEN <<>>
  ELSE LET dest  == rs[rsbeg].owner_rank
           rsdst == FindIfNot(OwnerRanks(rs), rsbeg + 1, rseqr, dest)
       IN << [type |-> "cand", dest |-> dest,
              ri |-> packRightInfo(rs, rsbeg, rsdst), li |-> lhsJoinData] >>
          \o OwnerGroups(rs, rsdst, rseqr, lhsJoinData)

\* lines 692-736: the two-pointer walk; lslim and rslim are one past the end
RECURSIVE MergeWalk(_, _, _, _)
MergeWalk(ls, rs, lsbeg, rsbeg) ==
  LET lslim == Len(ls) + 1
      rslim == Len(rs) + 1
  IN IF lsbeg = lslim \/ rsbeg = rslim THEN <<>>
     ELSE LET lskey == ls[lsbeg].hash
              rskey == rs[rsbeg].hash
              lseqr == FindIfNot(Hashes(ls), lsbeg + 1, lslim, lskey)
              rseqr == FindIfNot(Hashes(rs), rsbeg + 1, rslim, rskey)
          IN IF lskey < rskey THEN MergeWalk(ls, rs, lseqr, rsbeg)
             ELSE IF lskey > rskey THEN MergeWalk(ls, rs, lsbeg, rseqr)
             ELSE OwnerGroups(rs, rsbeg, rseqr, packLeftInfo(ls, lsbeg, lseqr))
                  \o MergeWalk(ls, rs, lseqr, rseqr)

MergeCandidate(m) == [local_data |-> m.ri, remote_data |-> m.li]

\* storeCandidates for each message of msgs, in order
storeCandidates(cands, msgs) ==
  cands \o [i \in 1 .. Len(msgs) |-> MergeCandidate(msgs[i])]

IndexKept(index) == index

\* local.joinIndex[lhsSide].clear(); local.joinIndex[rhsSide].clear();
\* lines 738-739
IndexCleared(index) == EmptyIndex

Phase2(r) ==
  /\ pc[r] = "Phase2"
  /\ \E ls \in SortOutcomes(joinIndex[r].lhsData), rs \in SortOutcomes(joinIndex[r].rhsData) :
       LET msgs == MergeWalk(ls, rs, 1, 1)
       IN /\ mergeCandidates' =
               [mergeCandidates EXCEPT ![r] = storeCandidates(@, MsgsFor(msgs, r))]
          /\ net' = Async(r, msgs)
  /\ joinIndex' = [joinIndex EXCEPT ![r] = IndexCleared(@)]
  /\ pc' = [pc EXCEPT ![r] = "Barrier2"]
  /\ UNCHANGED <<args, hashMode, lhsVec, rhsVec, outVec, joinData,
                 errorCode, returned, hin, hout, prev, opened, selCall>>

\* the handler of lines 328-331
RecvJoinCandidates(s, d) ==
  /\ Alive(d)
  /\ net[s][d] # <<>>
  /\ Head(net[s][d]).type = "cand"
  /\ mergeCandidates' =
       [mergeCandidates EXCEPT ![d] = storeCandidates(@, <<Head(net[s][d])>>)]
  /\ net' = [net EXCEPT ![s][d] = Tail(@)]
  /\ UNCHANGED <<args, hashMode, lhsVec, rhsVec, outVec, pc, joinIndex, joinData,
                 errorCode, returned, hin, hout, prev, opened, selCall>>

-----------------------------------------------------------------------------
(* Phase 3: payloads, lines 336-363, 762-815 *)

\* projector(sendListRhs): the listed fields the row has, in list order; the
\* whole row when the list is empty
RECURSIVE ProjectFrom(_, _, _, _)
ProjectFrom(kvs, projlst, i, acc) ==
  IF i > Len(projlst) THEN acc
  ELSE CHOOSE res \in
         { ProjectFrom(kvs, projlst, i + 1, nxt) :
             nxt \in {IF Contains(kvs, projlst[i]) /\ ~Contains(acc, projlst[i])
                      THEN Append(acc, <<projlst[i], ValueAt(kvs, projlst[i])>>)
                      ELSE acc} } : TRUE

projectRow(row, projlst) ==
  IF projlst = <<>> THEN row ELSE JObj(ProjectFrom(row.o, projlst, 1, <<>>))

\* lines 780-800: one commJoinData call per run of left candidates with the
\* same owner; src names the rows of data (a history field)
RECURSIVE OwnerRuns(_, _, _, _)
OwnerRuns(remote, beg, jsdata, src) ==
  LET lim  == Len(remote) + 1
      dest == remote[beg].owner
      nxt  == FindIfNot(Owners(remote), beg, lim, dest)
      msg  == [type |-> "data", dest |-> dest,
               indices |-> [i \in 1 .. (nxt - beg) |-> remote[beg + i - 1].index],
               data |-> jsdata, src |-> src]
  IN <<msg>> \o (IF nxt = lim THEN <<>> ELSE OwnerRuns(remote, nxt, jsdata, src))

\* lines 765-801 for one element of mergeCandidates
ShipCandidate(r, m) ==
  LET jsdata == [i \in 1 .. Len(m.local_data) |->
                   projectRow(At(rhsVec[r], m.local_data[i]), sendListRhs)]
      src    == [i \in 1 .. Len(m.local_data) |-> <<r, m.local_data[i]>>]
  IN OwnerRuns(m.remote_data, 1, jsdata, src)

RECURSIVE ShipAll(_, _, _)
ShipAll(r, cands, i) ==
  IF i > Len(cands) THEN <<>>
  ELSE ShipCandidate(r, cands[i]) \o ShipAll(r, cands, i + 1)

JoinData(m) == [indices |-> m.indices, data |-> m.data, src |-> m.src]

\* storeJoinData for each message of msgs, in order
storeJoinData(jd, msgs) ==
  jd \o [i \in 1 .. Len(msgs) |-> JoinData(msgs[i])]

\* lines 349-362: what travels is the text of the array
OnWire(m) == [m EXCEPT !.data = Serialize(m.data)]

OffWire(m) == [m EXCEPT !.data = ParseArray(m.data)]

Phase3(r) ==
  /\ pc[r] = "Phase3"
  /\ LET msgs == ShipAll(r, mergeCandidates[r], 1)
     IN /\ joinData' = [joinData EXCEPT ![r] = storeJoinData(@, MsgsFor(msgs, r))]
        /\ net' = Async(r, [i \in 1 .. Len(msgs) |-> OnWire(msgs[i])])
  /\ mergeCandidates' = [mergeCandidates EXCEPT ![r] = <<>>]
  /\ pc' = [pc EXCEPT ![r] = "Barrier3"]
  /\ UNCHANGED <<args, hashMode, lhsVec, rhsVec, outVec, joinIndex,
                 errorCode, returned, hin, hout, prev, opened, selCall>>

\* the handler of lines 353-360
RecvJoinData(s, d) ==
  /\ Alive(d)
  /\ net[s][d] # <<>>
  /\ Head(net[s][d]).type = "data"
  /\ joinData' = [joinData EXCEPT ![d] = storeJoinData(@, <<OffWire(Head(net[s][d]))>>)]
  /\ net' = [net EXCEPT ![s][d] = Tail(@)]
  /\ UNCHANGED <<args, hashMode, lhsVec, rhsVec, outVec, pc, joinIndex, mergeCandidates,
                 errorCode, returned, hin, hout, prev, opened, selCall>>

-----------------------------------------------------------------------------
(* Phase 4: the local join, lines 422-519, 817-869 *)

\* appendFields, lines 422-438
RECURSIVE AppendAllFrom(_, _, _, _)
AppendAllFrom(rec, that, i, suffix) ==
  IF i > Len(that) THEN rec
  ELSE CHOOSE res \in { AppendAllFrom(nxt, that, i + 1, suffix) :
                          nxt \in {ObjSet(rec, that[i][1] \o suffix, that[i][2])} } : TRUE

\* appendFields, lines 453-460
RECURSIVE AppendListedFrom(_, _, _, _, _)
AppendListedFrom(rec, that, projlst, i, suffix) ==
  IF i > Len(projlst) THEN rec
  ELSE CHOOSE res \in
         { AppendListedFrom(nxt, that, projlst, i + 1, suffix) :
             nxt \in {IF Contains(that, projlst[i])
                      THEN ObjSet(rec, projlst[i] \o suffix, ValueAt(that, projlst[i]))
                      ELSE rec} } : TRUE

AppendFieldsIgnoringList(rec, other, projlst, suffix) ==
  AppendAllFrom(rec, other.o, 1, suffix)

appendFields(rec, other, projlst, suffix) ==
  IF projlst = <<>> THEN AppendAllFrom(rec, other.o, 1, suffix)
  ELSE AppendListedFrom(rec, other.o, projlst, 1, suffix)

\* joinRecords, lines 464-479
joinRecords(lhs, projlstLHS, rhs, projlstRHS) ==
  appendFields(appendFields(<<>>, lhs, projlstLHS, "_l"), rhs, projlstRHS, "_r")

\* What line 504-506 does with a join column that one of the two rows lacks:
\* the assertion stops the process, or (assertions compiled out) a null
\* pointer is dereferenced and the comparison may crash or give either answer
MissingKeyOutcomes == {"abort", "unequal", "equal"}

\* computeJoin, lines 497-508: "join", "skip" or "abort"
RECURSIVE CompareFrom(_, _, _, _, _, _)
CompareFrom(lhsObj, lOn, rhsObj, rOn, i, ub) ==
  IF i > Len(lOn) THEN "join"
  ELSE IF ~(Contains(lhsObj, lOn[i]) /\ Contains(rhsObj, rOn[i]))
  THEN (CASE ub = "abort"   -> "abort"
          [] ub = "unequal" -> "skip"
          [] ub = "equal"   -> CompareFrom(lhsObj, lOn, rhsObj, rOn, i + 1, ub))
  ELSE IF ~JsonEq(ValueAt(lhsObj, lOn[i]), ValueAt(rhsObj, rOn[i])) THEN "skip"
  ELSE CompareFrom(lhsObj, lOn, rhsObj, rOn, i + 1, ub)

computeJoin(lhs, lOn, rhs, rOn, ub) == CompareFrom(lhs.o, lOn, rhs.o, rOn, 1, ub)

\* lines 842-855: the (left index, right value) pairs in the order of the loops
RECURSIVE PairsOf(_, _, _)
PairsOf(el, i, k) ==
  IF i > Len(el.indices) THEN <<>>
  ELSE IF k > Len(el.data) THEN PairsOf(el, i + 1, 1)
  ELSE << [lhsIdx |-> el.indices[i], remoteObj |-> el.data[k], src |-> el.src[k]] >>
       \o PairsOf(el, i, k + 1)

RECURSIVE AllPairs(_, _)
AllPairs(jd, i) ==
  IF i > Len(jd) THEN <<>> ELSE PairsOf(jd[i], 1, 1) \o AllPairs(jd, i + 1)

\* The records appended by the calls of computeJoin, and whether a call
\* stopped the process
RECURSIVE RunJoins(_, _, _, _, _)
RunJoins(r, pairs, i, out, ub) ==
  IF i > Len(pairs) THEN [out |-> out, aborted |-> FALSE]
  ELSE LET lhsObj == At(lhsVec[r], pairs[i].lhsIdx)
           rhsObj == pairs[i].remoteObj
           what   == computeJoin(lhsObj, lhsOn, rhsObj, rhsOn, ub)
       IN IF what = "abort" THEN [out |-> out, aborted |-> TRUE]
          ELSE RunJoins(r, pairs, i + 1,
                 IF what = "join"
                 THEN Append(out, [rec |-> joinRecords(lhsObj, projLhs, rhsObj, projRhs),
                                   lsrc |-> <<r, pairs[i].lhsIdx>>,
                                   rsrc |-> pairs[i].src, stale |-> FALSE])
                 ELSE out,
                 ub)

OutputKept(old) == old

\* lines 831-837: createOverwrite and clear
OutputCleared(old) == <<>>

Phase4(r) ==
  /\ pc[r] = "Phase4"
  /\ \E ub \in MissingKeyOutcomes :
     \E res \in { RunJoins(r, pairs, 1, OutputCleared(outVec[r]), ub) :
                    pairs \in {AllPairs(joinData[r], 1)} } :
          /\ outVec' = [outVec EXCEPT ![r] = res.out]
          /\ pc' = [pc EXCEPT ![r] = IF res.aborted THEN "Aborted" ELSE "Barrier4"]
          /\ joinData' = [joinData EXCEPT ![r] = IF res.aborted THEN @ ELSE <<>>]
  /\ opened' = [opened EXCEPT ![r] = @ \cup {"output"}]
  /\ UNCHANGED <<args, hashMode, lhsVec, rhsVec, joinIndex, mergeCandidates, net,
                 errorCode, returned, hin, hout, prev, selCall>>

-----------------------------------------------------------------------------
(* Report, lines 869-891 *)

RECURSIVE SumLen(_, _)
SumLen(f, S) ==
  IF S = {} THEN 0
  ELSE LET x == CHOOSE y \in S : TRUE IN Len(f[x]) + SumLen(f, S \ {x})

\* world.all_reduce_sum(outVec.countAllLocal())
all_reduce_sum == SumLen(outVec, Rank)

Report(r) ==
  /\ pc[r] = "Report"
  /\ returned' = [returned EXCEPT ![r] =
                    IF r = 0 THEN "joined " \o ToString(all_reduce_sum) \o " records.\n"
                    ELSE @]
  /\ pc' = [pc EXCEPT ![r] = "Done"]
  /\ UNCHANGED <<args, hashMode, lhsVec, rhsVec, outVec, joinIndex, mergeCandidates,
                 joinData, net, errorCode, hin, hout, prev, opened, selCall>>

-----------------------------------------------------------------------------
(* The join *)

Barriers == {"Barrier1", "Barrier2", "Barrier3", "Barrier4"}

Next ==
  \/ \E r \in Rank : Start(r)
  \/ \E r \in Rank : Phase1(r)
  \/ \E s \in Rank, d \in Rank : RecvJoinHash(s, d)
  \/ \E b \in Barriers : Barrier(b)
  \/ \E r \in Rank : Phase2(r)
  \/ \E s \in Rank, d \in Rank : RecvJoinCandidates(s, d)
  \/ \E r \in Rank : Phase3(r)
  \/ \E s \in Rank, d \in Rank : RecvJoinData(s, d)
  \/ \E r \in Rank : Phase4(r)
  \/ \E r \in Rank : Report(r)

Spec == Init /\ [][Next]_vars

\* Each rank's main thread keeps running, every message sent is handled while
\* its destination is inside ygm_main, and a barrier that every rank has
\* entered with nothing in flight returns: the join does not stop while one
\* of its steps can be taken. (No step can be taken twice in one run, so this
\* is the same as fairness for each step by itself.)
Fairness == WF_vars(Next)

SpecFair == Init /\ [][Next]_vars /\ Fairness

-----------------------------------------------------------------------------
(* Running the same join again, against a fresh output *)

AllDone == \A r \in Rank : pc[r] = "Done"

RECURSIVE Concat(_, _)
Concat(f, n) == IF n < 0 THEN <<>> ELSE Concat(f, n - 1) \o f[n]

\* The records of all output shards
AllOut == Concat(outVec, WorldSize - 1)

\* A sequence as a multiset: each element with the number of times it occurs
BagOf(seq) ==
  [x \in { seq[i] : i \in 1 .. Len(seq) } |->
     Cardinality({ i \in 1 .. Len(seq) : seq[i] = x })]

OutBag == BagOf([i \in 1 .. Len(AllOut) |-> AllOut[i].rec])

Rerun(mode) ==
  /\ AllDone
  /\ prev.run = 1
  /\ prev' = [run |-> 2, mode |-> hashMode, out |-> OutBag]
  /\ hashMode' = mode
  /\ pc' = [r \in Rank |-> "Init"]
  /\ outVec' = [r \in Rank |-> <<>>]
  /\ errorCode' = [r \in Rank |-> 0]
  /\ returned' = [r \in Rank |-> ""]
  /\ opened' = [r \in Rank |-> {}]
  /\ UNCHANGED <<args, lhsVec, rhsVec, joinIndex, mergeCandidates, joinData, net,
                 hin, hout, selCall>>

\* line 750 removed: a rank that has finished phase 2 goes on with phase 3
SkipBarrier(r) ==
  /\ pc[r] = "Barrier2"
  /\ ~BarrierPresent("Barrier2")
  /\ pc' = [pc EXCEPT ![r] = "Phase3"]
  /\ UNCHANGED <<args, hashMode, lhsVec, rhsVec, outVec, joinIndex, mergeCandidates,
                 joinData, net, errorCode, returned, hin, hout, prev, opened, selCall>>

NextRerun ==
  \/ Next
  \/ \E mode \in HashModes \cup {"no second barrier"} : Rerun(mode)
  \/ \E r \in Rank : SkipBarrier(r)

SpecRerun == Init /\ [][NextRerun]_vars

-----------------------------------------------------------------------------
(* The hash functions alone *)

HashValues ==
  { JNull, JBool(FALSE), JBool(TRUE), JInt(0), JInt(1), JStr("a"), JStr("b"),
    OAB, OBA, JArr(<<JInt(1), JInt(2)>>), JArr(<<JInt(2), JInt(1)>>),
    K1X, K1P, Row(<< <<"a", JStr("x")>>, <<"k", JInt(1)>> >>),
    Row(<< <<"j", JInt(1)>>, <<"b", JNull>> >>),
    Row(<< <<"k", JInt(2)>>, <<"j", JInt(1)>> >>) }

HashColumns == { <<>>, <<"k">>, <<"j">>, <<"k", "j">>, <<"j", "k">>, <<"a", "b">> }

InitHash ==
  /\ hin \in [v1 : HashValues, v2 : HashValues, sel1 : HashColumns, sel2 : HashColumns,
              w1 : Rank, w2 : Rank]
  /\ hout = NoHashOut
  /\ args = Invocations[2].args
  /\ hashMode = "canonical"
  /\ lhsVec = [r \in Rank |-> <<>>]
  /\ rhsVec = [r \in Rank |-> <<>>]
  /\ outVec = [r \in Rank |-> <<>>]
  /\ pc = [r \in Rank |-> "Done"]
  /\ joinIndex = [r \in Rank |-> EmptyIndex]
  /\ mergeCandidates = [r \in Rank |-> <<>>]
  /\ joinData = [r \in Rank |-> <<>>]
  /\ net = EmptyNet
  /\ errorCode = [r \in Rank |-> 0]
  /\ returned = [r \in Rank |-> ""]
  /\ opened = [r \in Rank |-> {}]
  /\ prev = FirstRun
  /\ selCall = NoSel

CallHashCode ==
  /\ hout.op = "none"
  /\ hout' = [op |-> "hashCode", h1 |-> hashCode(hin.v1), h2 |-> hashCode(hin.v2)]
  /\ UNCHANGED <<joinVars, hin, prev, selCall>>

CallComputeHash ==
  /\ hout.op = "none"
  /\ hin.v1.t = "obj"
  /\ hin.v2.t = "obj"
  /\ hout' = [op |-> "computeHash",
              h1 |-> computeHash(hin.v1, hin.sel1, hin.w1),
              h2 |-> computeHash(hin.v2, hin.sel2, hin.w2)]
  /\ UNCHANGED <<joinVars, hin, prev, selCall>>

NextHash == CallHashCode \/ CallComputeHash

SpecHash == InitHash /\ [][NextHash]_vars

-----------------------------------------------------------------------------
(* forAllSelected alone, src/src/MetallFrame/mf-common.hpp lines 85-168 *)

\* varLookup, lines 130-147: the value of the row's column; for a column the
\* row lacks, the row number for "rowid", the rank for "mpiid", else null
varLookup(rowobj, col, rownum, rank) ==
  IF Contains(rowobj, col) THEN ValueAt(rowobj, col)
  ELSE IF col = "rowid" THEN JInt(rownum)
  ELSE IF col = "mpiid" THEN JInt(rank)
  ELSE JNull

RowPredicateNotNegated(query, rowobj, rownum, rank) ==
  JsonEq(varLookup(rowobj, query[1], rownum, rank), query[2])

\* rowPredicate, lines 149-154, for the rule "keys.<column> == value" written
\* <<column, value>>: TRUE when the rule does not hold for the row
rowPredicate(query, rowobj, rownum, rank) ==
  ~JsonEq(varLookup(rowobj, query[1], rownum, rank), query[2])

\* The rows, predicate lists and limits forAllSelected is called with; the
\* last limit is the default, std::numeric_limits<int>::max()
InitSel ==
  /\ \E ds \in UNION { [1 .. n -> { Row(<< <<"k", JInt(1)>> >>),
                                      Row(<< <<"k", JInt(2)>> >>),
                                      Row(<< <<"j", JInt(1)>> >>),
                                      JInt(7) }] : n \in 0 .. 3 },
        qs \in { <<>>,
                 << <<"k", JInt(1)>> >>,
                 << <<"rowid", JInt(1)>> >>,
                 << <<"k", JInt(1)>>, <<"mpiid", JInt(0)>> >>,
                 << <<"k", JInt(1)>>, <<"rowid", JInt(2)>> >> },
        w \in Rank,
        n \in {0, 1, 2, 2147483647} :
       selCall = [dataset |-> ds, predicates |-> qs, rank |-> w, limit |-> n,
                  numrows |-> n, rownum |-> 0, pos |-> 1, calls |-> <<>>,
                  state |-> "running"]
  /\ hin = NoHashIn
  /\ hout = NoHashOut
  /\ args = Invocations[2].args
  /\ hashMode = "canonical"
  /\ lhsVec = [r \in Rank |-> <<>>]
  /\ rhsVec = [r \in Rank |-> <<>>]
  /\ outVec = [r \in Rank |-> <<>>]
  /\ pc = [r \in Rank |-> "Done"]
  /\ joinIndex = [r \in Rank |-> EmptyIndex]
  /\ mergeCandidates = [r \in Rank |-> <<>>]
  /\ joinData = [r \in Rank |-> <<>>]
  /\ net = EmptyNet
  /\ errorCode = [r \in Rank |-> 0]
  /\ returned = [r \in Rank |-> ""]
  /\ opened = [r \in Rank |-> {}]
  /\ prev = FirstRun

\* One pass through the body of the loop of lines 124-167, or the end of the
\* loop after the last row
forAllSelected ==
  /\ selCall.state = "running"
  /\ LET c == selCall
     IN IF c.pos > Len(c.dataset)
        THEN selCall' = [c EXCEPT !.state = "returned"]
        ELSE LET row == c.dataset[c.pos]
             IN IF row.t # "obj"
                THEN selCall' = [c EXCEPT !.state = "raised"]
                ELSE IF \A i \in 1 .. Len(c.predicates) :
                          ~rowPredicate(c.predicates[i], row.o, c.rownum, c.rank)
                THEN IF c.numrows - 1 = 0
                     THEN selCall' = [c EXCEPT
                            !.calls = Append(@, [rownum |-> c.rownum, row |-> row]),
                            !.numrows = @ - 1,
                            !.state = "returned"]
                     ELSE selCall' = [c EXCEPT
                            !.calls = Append(@, [rownum |-> c.rownum, row |-> row]),
                            !.numrows = @ - 1,
                            !.rownum = @ + 1,
                            !.pos = @ + 1]
                ELSE selCall' = [c EXCEPT !.rownum = @ + 1, !.pos = @ + 1]
  /\ UNCHANGED <<joinVars, hin, hout, prev>>

NextSel == forAllSelected

SpecSel == InitSel /\ [][NextSel]_vars

\* generateIndexN, lines 74-83: v followed by 0, 1, ..., count - 1
generateIndexN(v, count) == v \o [i \in 1 .. count |-> i - 1]

\* computeSelected, lines 170-187: res, to which fn appends the rownum of
\* each call of the forAllSelected call in selCall
computeSelected == [n \in 1 .. Len(selCall.calls) |-> selCall.calls[n].rownum]

\* getSelectedRows, lines 190-203, for the data set, the limit and (with a
\* selection state) the predicates of selCall
getSelectedRows(has_state) ==
  IF ~has_state
  THEN generateIndexN(<<>>, IF selCall.limit < Len(selCall.dataset)
                            THEN selCall.limit ELSE Len(selCall.dataset))
  ELSE computeSelected

-----------------------------------------------------------------------------
(* projectJsonEntry alone, src/src/MetallFrame/mf-common.hpp lines 206-235 *)

\* lines 216-235. obj[i] is the object under construction after i columns of
\* the list; if_contains (lines 206-213) is asked about obj, and emplace adds
\* a member only under a name that obj does not have yet
projectJsonEntry(frentry, projlst) ==
  IF projlst = <<>> THEN frentry
  ELSE LET emplace(o, col, val) == IF Contains(o, col) THEN o ELSE Append(o, <<col, val>>)
           obj[i \in 0 .. Len(projlst)] ==
             IF i = 0 THEN <<>>
             ELSE IF Contains(obj[i - 1], projlst[i])
                  THEN emplace(obj[i - 1], projlst[i], ValueAt(obj[i - 1], projlst[i]))
                  ELSE obj[i - 1]
       IN JObj(obj[Len(projlst)])

\* The records and projection lists projectJsonEntry is called with
InitProj ==
  /\ \E rec \in { Row(<<>>), Row(<< <<"k", JInt(1)>> >>), K1X, K2Y,
                   Row(<< <<"a", JStr("x")>>, <<"k", JInt(1)>> >>),
                   Row(<< <<"j", JInt(1)>>, <<"b", JNull>> >>) },
        lst \in UNION { [1 .. n -> {"k", "a", "z"}] : n \in 0 .. 3 } :
       hin = [v1 |-> rec, v2 |-> JNull, sel1 |-> lst, sel2 |-> <<>>, w1 |-> 0, w2 |-> 0]
  /\ hout = NoHashOut
  /\ args = Invocations[2].args
  /\ hashMode = "canonical"
  /\ lhsVec = [r \in Rank |-> <<>>]
  /\ rhsVec = [r \in Rank |-> <<>>]
  /\ outVec = [r \in Rank |-> <<>>]
  /\ pc = [r \in Rank |-> "Done"]
  /\ joinIndex = [r \in Rank |-> EmptyIndex]
  /\ mergeCandidates = [r \in Rank |-> <<>>]
  /\ joinData = [r \in Rank |-> <<>>]
  /\ net = EmptyNet
  /\ errorCode = [r \in Rank |-> 0]
  /\ returned = [r \in Rank |-> ""]
  /\ opened = [r \in Rank |-> {}]
  /\ prev = FirstRun
  /\ selCall = NoSel

CallProjectJsonEntry ==
  /\ hout.op = "none"
  /\ hout' = [op |-> "projectJsonEntry", h1 |-> projectJsonEntry(hin.v1, hin.sel1), h2 |-> 0]
  /\ UNCHANGED <<joinVars, hin, prev, selCall>>

SpecProj == InitProj /\ [][CallProjectJsonEntry]_vars

-----------------------------------------------------------------------------
(* What the claims speak of *)

\* The selected rows of a side, each named by <<rank, row number>>
LeftRows ==
  UNION { { <<r, i>> : i \in Selected(lhsVec[r], args.left_selected) } : r \in Rank }

RightRows ==
  UNION { { <<r, i>> : i \in Selected(rhsVec[r], args.right_selected) } : r \in Rank }

RowL(l) == At(lhsVec[l[1]], l[2])

RowR(r) == At(rhsVec[r[1]], r[2])

HasJoinKeys(lrow, rrow) ==
  \A i \in 1 .. Len(lhsOn) : Contains(lrow.o, lhsOn[i]) /\ Contains(rrow.o, rhsOn[i])

\* l[left_on[i]] == r[right_on[i]] for every i
Match(lrow, rrow) ==
  \A i \in 1 .. Len(lhsOn) :
    /\ Contains(lrow.o, lhsOn[i])
    /\ Contains(rrow.o, rhsOn[i])
    /\ JsonEq(ValueAt(lrow.o, lhsOn[i]), ValueAt(rrow.o, rhsOn[i]))

MatchingPairs == { p \in LeftRows \X RightRows : Match(RowL(p[1]), RowR(p[2])) }

\* The records this join has appended, over all shards
Joined == { AllOut[i] : i \in { j \in 1 .. Len(AllOut) : ~AllOut[j].stale } }

JoinedAt(l, r) ==
  { i \in 1 .. Len(AllOut) :
      ~AllOut[i].stale /\ AllOut[i].lsrc = l /\ AllOut[i].rsrc = r }

NoAbort == \A r \in Rank : pc[r] # "Aborted"

EndsWith(key, suffix) ==
  /\ Len(key) >= Len(suffix)
  /\ SubSeq(key, Len(key) - Len(suffix) + 1, Len(key)) = suffix

Stem(key) == SubSeq(key, 1, Len(key) - 2)

Listed(name, projlst) == projlst = <<>> \/ InSeq(name, projlst)

IndexEntries(r) ==
  { joinIndex[r].lhsData[i] : i \in 1 .. Len(joinIndex[r].lhsData) }
  \cup { joinIndex[r].rhsData[i] : i \in 1 .. Len(joinIndex[r].rhsData) }

InFlight(type) ==
  \E s \in Rank, d \in Rank : \E i \in 1 .. Len(net[s][d]) : net[s][d][i].type = type

PresentValues(obj, sel) ==
  LET present == SelectSeq(sel, LAMBDA c : c \in Keys(obj.o))
  IN [i \in 1 .. Len(present) |->
        obj.o[CHOOSE j \in 1 .. Len(obj.o) : obj.o[j][1] = present[i]][2]]

RECURSIVE FoldHash(_)
FoldHash(vals) ==
  IF vals = <<>> THEN 0
  ELSE stableHashCombine(FoldHash(SubSeq(vals, 1, Len(vals) - 1)),
                         hashCode(vals[Len(vals)]))

-----------------------------------------------------------------------------
(* Claims *)

\* C1: when the join has completed on every rank, every pair of a selected
\* left row and a selected right row whose join-column values are equal has
\* exactly one record in the output shards, the record joinRecords builds
\* from the two rows.
C1_ExactlyOnce ==
  AllDone =>
    \A p \in MatchingPairs :
      /\ Cardinality(JoinedAt(p[1], p[2])) = 1
      /\ \A i \in JoinedAt(p[1], p[2]) :
           AllOut[i].rec = joinRecords(RowL(p[1]), projLhs, RowR(p[2]), projRhs)

\* C2: every record the join appends is built from a pair of rows whose
\* join-column values are all equal, and a pair that fails the comparison
\* stops no rank.
C2_OnlyMatchesJoined ==
  /\ \A o \in Joined : Match(RowL(o.lsrc), RowR(o.rsrc))
  /\ NoAbort

\* C3: when the join has completed, rank 0 reports the sum of the lengths of
\* the output shards, and that sum is the number of matching pairs.
C3_CountLaw ==
  AllDone =>
    /\ returned[0] = "joined " \o ToString(SumLen(outVec, Rank)) \o " records.\n"
    /\ SumLen(outVec, Rank) = Cardinality(MatchingPairs)

\* C4: every entry of joinIndex on rank r, of either side, has
\* hash mod world size = r, at every point of the join.
C4_Partitioned ==
  \A r \in Rank : \A e \in IndexEntries(r) : e.hash % WorldSize = r

C4_Witness ==
  \E r \in Rank :
    /\ pc[r] = "Phase2"
    /\ \E e \in IndexEntries(r) : e.owner_rank = r
    /\ \E e \in IndexEntries(r) : e.owner_rank # r

\* C5: while a message of phase N is in flight, no rank has begun phase N+1:
\* an index message only while every rank is at most at the first barrier, a
\* candidate message only while every rank is in phase 2 or at the second
\* barrier, a payload message only while every rank is in phase 3 or at the
\* third barrier.
C5_PhaseSeparation ==
  /\ InFlight("hash") =>
       \A r \in Rank : pc[r] \in {"Init", "Phase1", "Barrier1", "FailedLocal"}
  /\ InFlight("cand") => \A r \in Rank : pc[r] \in {"Phase2", "Barrier2"}
  /\ InFlight("data") => \A r \in Rank : pc[r] \in {"Phase3", "Barrier3"}

C5_Witness ==
  \E s \in Rank, d \in Rank :
    /\ net[s][d] # <<>>
    /\ Head(net[s][d]).type = "cand"
    /\ pc[d] = "Barrier2"
    /\ pc[s] = "Barrier2"

\* C6: the join run with the constant hash leaves the same multiset of output
\* records as the run with the canonical hash on the same inputs.
C6_ConstantHashSameOutput ==
  (AllDone /\ prev.run = 2 /\ prev.mode = "canonical" /\ hashMode = "constant")
    => OutBag = prev.out

\* C7: a pair of hash-matched rows one of which lacks a join column is
\* skipped: no rank is stopped, no record is appended for the pair, and the
\* pairs that do match are still joined.
C7_MissingKeySkipped ==
  /\ NoAbort
  /\ \A o \in Joined : HasJoinKeys(RowL(o.lsrc), RowR(o.rsrc))
  /\ AllDone =>
       \A p \in MatchingPairs :
         HasJoinKeys(RowL(p[1]), RowR(p[2])) => JoinedAt(p[1], p[2]) # {}

\* C8: two JSON values that compare equal have the same hashCode.
C8_EqualValuesEqualHash ==
  (hout.op = "hashCode" /\ JsonEq(hin.v1, hin.v2)) => hout.h1 = hout.h2

\* C9: computeHash folds stableHashCombine, from 0, over the values of the
\* columns the row has, in column order; two calls whose rows have the same
\* sequence of present values give the same hash, whatever the ranks, the
\* column names and the other fields.
C9_HashOfPresentValues ==
  hout.op = "computeHash" =>
    /\ hout.h1 = FoldHash(PresentValues(hin.v1, hin.sel1))
    /\ hout.h2 = FoldHash(PresentValues(hin.v2, hin.sel2))
    /\ PresentValues(hin.v1, hin.sel1) = PresentValues(hin.v2, hin.sel2)
         => hout.h1 = hout.h2

C9_Witness ==
  /\ hout.op = "computeHash"
  /\ hin.w1 # hin.w2
  /\ hin.sel1 # hin.sel2
  /\ Keys(hin.v1.o) # Keys(hin.v2.o)
  /\ \E i \in 1 .. Len(hin.sel1) : ~Contains(hin.v1.o, hin.sel1[i])
  /\ PresentValues(hin.v1, hin.sel1) # <<>>
  /\ PresentValues(hin.v1, hin.sel1) = PresentValues(hin.v2, hin.sel2)
  /\ hout.h1 = hout.h2

\* C10: every key of every joined record ends in "_l" or "_r"; the name
\* before "_l" is a field of the left row and is listed in left_columns (or
\* left_columns is empty), the name before "_r" is a field of the right row
\* and is listed in right_columns (or right_columns is empty).
C10_ProjectionRespected ==
  \A o \in Joined : \A key \in Keys(o.rec) :
    \/ /\ EndsWith(key, "_l")
       /\ Stem(key) \in Keys(RowL(o.lsrc).o)
       /\ Listed(Stem(key), projLhs)
    \/ /\ EndsWith(key, "_r")
       /\ Stem(key) \in Keys(RowR(o.rsrc).o)
       /\ Listed(Stem(key), projRhs)

C10_Witness ==
  /\ projRhs # <<>>
  /\ projLhs # <<>>
  /\ sendListRhs # projRhs
  /\ \E o \in Joined :
       /\ \A i \in 1 .. Len(rhsOn) :
            /\ Contains(RowR(o.rsrc).o, rhsOn[i])
            /\ ~Contains(o.rec, rhsOn[i] \o "_r")
       /\ \A i \in 1 .. Len(lhsOn) :
            /\ Contains(RowL(o.lsrc).o, lhsOn[i])
            /\ ~Contains(o.rec, lhsOn[i] \o "_l")
       /\ o.rec # <<>>

-----------------------------------------------------------------------------
(* The right send list *)

\* The position of the first occurrence of x in seq
FirstAt(x, seq) == CHOOSE i \in 1 .. Len(seq) : seq[i] = x /\ \A j \in 1 .. (i - 1) : seq[j] # x

\* The columns sendListRhs has after those of right_columns
SendTail == SubSeq(sendListRhs, Len(args.right_columns) + 1, Len(sendListRhs))

\* The payloads of right rows, received or still in flight as text: the rows
\* sent and the rows they were projected from
Payloads ==
  UNION { { [data |-> joinData[r][e].data, src |-> joinData[r][e].src] :
              e \in 1 .. Len(joinData[r]) } : r \in Rank }
  \cup
  UNION { { [data |-> ParseArray(net[s][d][m].data), src |-> net[s][d][m].src] :
              m \in { n \in 1 .. Len(net[s][d]) : net[s][d][n].type = "data" } } :
          <<s, d>> \in Rank \X Rank }

\* C11: the right send list is right_columns, in their order, followed by the
\* right join columns that right_columns does not hold, in right_on order and
\* each once; it is empty when right_columns is empty. Every right row in a
\* payload has every right join column of its source row, with the same value.
C11_RightSendList ==
  /\ args.right_columns = <<>> => sendListRhs = <<>>
  /\ args.right_columns # <<>> =>
       /\ Len(sendListRhs) >= Len(args.right_columns)
       /\ SubSeq(sendListRhs, 1, Len(args.right_columns)) = args.right_columns
       /\ \A i \in 1 .. Len(SendTail) :
            /\ \E j \in 1 .. Len(rhsOn) : rhsOn[j] = SendTail[i]
            /\ \A j \in 1 .. Len(args.right_columns) : args.right_columns[j] # SendTail[i]
       /\ \A i, j \in 1 .. Len(SendTail) :
            i < j => /\ SendTail[i] # SendTail[j]
                     /\ FirstAt(SendTail[i], rhsOn) < FirstAt(SendTail[j], rhsOn)
       /\ \A i \in 1 .. Len(rhsOn) :
            \E j \in 1 .. Len(sendListRhs) : sendListRhs[j] = rhsOn[i]
  /\ \A p \in Payloads : \A k \in 1 .. Len(p.data) : \A i \in 1 .. Len(rhsOn) :
       Contains(RowR(p.src[k]).o, rhsOn[i]) =>
         /\ Contains(p.data[k].o, rhsOn[i])
         /\ ValueAt(p.data[k].o, rhsOn[i]) = ValueAt(RowR(p.src[k]).o, rhsOn[i])

C11_Witness ==
  /\ args.right_columns # <<>>
  /\ Len(SendTail) = 1
  /\ \E i, j \in 1 .. Len(rhsOn) : i < j /\ rhsOn[i] = rhsOn[j]
  /\ \E i \in 1 .. Len(rhsOn) : \E j \in 1 .. Len(args.right_columns) :
       args.right_columns[j] = rhsOn[i]
  /\ \E p \in Payloads : \E k \in 1 .. Len(p.data) :
       /\ Keys(p.data[k].o) # Keys(RowR(p.src[k]).o)
       /\ \A i \in 1 .. Len(rhsOn) : Contains(p.data[k].o, rhsOn[i])

-----------------------------------------------------------------------------
(* Join-column resolution *)

\* The join columns of a side as the arguments give them
EffectiveLeft == IF args.left_on # <<>> THEN args.left_on ELSE args.on

EffectiveRight == IF args.right_on # <<>> THEN args.right_on ELSE args.on

\* C12: the left join columns are left_on when it is given and on otherwise,
\* the right join columns are right_on when it is given and on otherwise, each
\* side on its own; index entries are hashed over these columns, and a joined
\* record's rows agree at the i-th left and the i-th right column wherever
\* both rows have them.
C12_JoinColumnResolution ==
  /\ lhsOn = EffectiveLeft
  /\ rhsOn = EffectiveRight
  /\ \A r \in Rank :
       /\ \A i \in 1 .. Len(joinIndex[r].lhsData) :
            LET e == joinIndex[r].lhsData[i]
            IN e.hash = HashRow(At(lhsVec[e.owner_rank], e.owner_index), EffectiveLeft,
                                e.owner_rank)
       /\ \A i \in 1 .. Len(joinIndex[r].rhsData) :
            LET e == joinIndex[r].rhsData[i]
            IN e.hash = HashRow(At(rhsVec[e.owner_rank], e.owner_index), EffectiveRight,
                                e.owner_rank)
  /\ \A o \in Joined : \A i \in 1 .. Len(EffectiveLeft) :
       (Contains(RowL(o.lsrc).o, EffectiveLeft[i]) /\ Contains(RowR(o.rsrc).o, EffectiveRight[i]))
         => JsonEq(ValueAt(RowL(o.lsrc).o, EffectiveLeft[i]),
                   ValueAt(RowR(o.rsrc).o, EffectiveRight[i]))

C12_Witness ==
  /\ args.left_on # <<>>
  /\ args.right_on = <<>>
  /\ args.on # <<>>
  /\ args.on # args.left_on
  /\ \E o \in Joined :
       /\ ~JsonEq(ValueAt(RowL(o.lsrc).o, args.on[1]), ValueAt(RowR(o.rsrc).o, args.on[1]))
       /\ ~JsonEq(ValueAt(RowL(o.lsrc).o, args.left_on[1]),
                  ValueAt(RowR(o.rsrc).o, args.left_on[1]))
       /\ JsonEq(ValueAt(RowL(o.lsrc).o, args.left_on[1]), ValueAt(RowR(o.rsrc).o, args.on[1]))

-----------------------------------------------------------------------------
(* Configuration errors *)

ConfigInvalid ==
  \/ args.on = <<>> /\ args.left_on = <<>>
  \/ args.on = <<>> /\ args.right_on = <<>>
  \/ Len(EffectiveLeft) # Len(EffectiveRight)

\* C13: with on and left_on both empty, or on and right_on both empty, or
\* join-column lists of different lengths, every rank ends in FailedLocal with
\* a non-zero exit code; no rank opens a data set, enters a phase or a
\* barrier, and no step changes the index, the candidates, the payloads, the
\* output or the messages in flight.
C13_ConfigurationErrors ==
  /\ [](ConfigInvalid =>
          /\ NetEmpty
          /\ \A r \in Rank :
               /\ pc[r] \in {"Init", "FailedLocal"}
               /\ pc[r] = "FailedLocal" => errorCode[r] # 0
               /\ opened[r] = {}
               /\ joinIndex[r] = EmptyIndex
               /\ mergeCandidates[r] = <<>>
               /\ joinData[r] = <<>>)
  /\ [][ConfigInvalid =>
          UNCHANGED <<joinIndex, mergeCandidates, joinData, outVec, net, opened>>]_vars
  /\ (ConfigInvalid ~> (\A r \in Rank : pc[r] = "FailedLocal"))

C13_Witness ==
  /\ Len(EffectiveLeft) # Len(EffectiveRight)
  /\ args.on # <<>>
  /\ \A r \in Rank : pc[r] = "FailedLocal" /\ errorCode[r] = 1
  /\ returned[0] = "Number of columns of Left_On and Right_on differ"

-----------------------------------------------------------------------------
(* Result reporting *)

\* What a rank that caught an error hands back: a non-zero exit code, and the
\* message on rank 0 only
FailureReported(r) ==
  /\ errorCode[r] # 0
  /\ r # 0 => returned[r] = ""
  /\ r = 0 => /\ returned[r] # ""
              /\ SubSeq(returned[r], 1, 6) # "joined"

\* C14 as stated: after a successful join rank 0 alone has returned a string,
\* the string is "joined N records." with N the number of output records, and
\* every exit code is 0; a rank that caught an error has a non-zero exit code
\* and has returned the message only if it is rank 0.
C14_ResultReporting ==
  /\ AllDone =>
       /\ returned[0] = "joined " \o ToString(SumLen(outVec, Rank)) \o " records."
       /\ \A r \in Rank : errorCode[r] = 0 /\ (r # 0 => returned[r] = "")
  /\ \A r \in Rank : pc[r] = "FailedLocal" => FailureReported(r)

\* C14 amended: the string rank 0 returns ends with a newline:
\* "joined N records.\n"; the rest as stated.
C14_ResultReportingNewline ==
  /\ AllDone =>
       /\ returned[0] = "joined " \o ToString(SumLen(outVec, Rank)) \o " records.\n"
       /\ \A r \in Rank : errorCode[r] = 0 /\ (r # 0 => returned[r] = "")
  /\ \A r \in Rank : pc[r] = "FailedLocal" => FailureReported(r)

C14_Witness ==
  /\ AllDone
  /\ SumLen(outVec, Rank) >= 2
  /\ returned[0] = "joined " \o ToString(SumLen(outVec, Rank)) \o " records.\n"
  /\ returned[1] = ""

-----------------------------------------------------------------------------
(* Running the join twice *)

-----------------------------------------------------------------------------
(* Lifetime of the per-rank state *)

\* C16: on every rank the index holds entries only from the start of phase 1
\* to the end of phase 2, the candidates only from the start of phase 2 to
\* the end of phase 3, the payloads only from the start of phase 3 to the end
\* of phase 4; a rank that is Done holds none of them, and once one of them
\* has been cleared nothing is added to it.  A rank that failed before its
\* phase 1 keeps what its handlers stored: it never reaches the end of phase 2.
C16_StateLifecycle ==
  \A r \in Rank :
    /\ joinIndex[r] # EmptyIndex =>
         /\ pc[r] \in {"Init", "Phase1", "Barrier1", "Phase2", "FailedLocal"}
         /\ \E q \in Rank : pc[q] # "Init"
    /\ mergeCandidates[r] # <<>> => pc[r] \in {"Phase2", "Barrier2", "Phase3"}
    /\ joinData[r] # <<>> => pc[r] \in {"Phase3", "Barrier3", "Phase4", "Aborted"}
    /\ pc[r] = "Done" =>
         joinIndex[r] = EmptyIndex /\ mergeCandidates[r] = <<>> /\ joinData[r] = <<>>

C16_Witness ==
  /\ AllDone
  /\ Joined # {}
  /\ \A r \in Rank :
       joinIndex[r] = EmptyIndex /\ mergeCandidates[r] = <<>> /\ joinData[r] = <<>>

-----------------------------------------------------------------------------
(* What the join writes *)

\* C17: no step changes the left or the right input; the output shard of a
\* rank changes only in that rank's own phase-4 step, taken when no message
\* is in flight, and in no handler and no step of phases 1 to 3.
C17_Frame ==
  [][ /\ lhsVec' = lhsVec
      /\ rhsVec' = rhsVec
      /\ \A r \in Rank :
           outVec'[r] # outVec[r] =>
             /\ pc[r] = "Phase4"
             /\ pc'[r] \in {"Barrier4", "Aborted"}
             /\ NetEmpty
             /\ net' = net
             /\ \A q \in Rank \ {r} : outVec'[q] = outVec[q] ]_vars

C17_Witness ==
  \E r \in Rank :
    /\ pc[r] = "Barrier4"
    /\ \E i \in 1 .. Len(outVec[r]) : ~outVec[r][i].stale
    /\ \E q \in Rank : Len(lhsVec[q]) > 0
    /\ \E q \in Rank : Len(rhsVec[q]) > 0


\* C18: a record that was in the output location before the join is gone from
\* a rank's shard once that rank has finished phase 4, so that after a
\* successful join the output holds the records this join appended and no
\* others.
C18_OutputOverwritten ==
  /\ \A r \in Rank :
       pc[r] \in {"Barrier4", "Report", "Done"} =>
         \A i \in 1 .. Len(outVec[r]) : ~outVec[r][i].stale
  /\ AllDone => \A i \in 1 .. Len(AllOut) : AllOut[i] \in Joined

C18_Witness ==
  \E r \in Rank, q \in Rank :
    /\ pc[q] = "Phase4"
    /\ \E i \in 1 .. Len(outVec[q]) : outVec[q][i].stale
    /\ pc[r] = "Barrier4"
    /\ outVec[r] # <<>>
    /\ \A i \in 1 .. Len(outVec[r]) : ~outVec[r][i].stale

-----------------------------------------------------------------------------
(* Progress of the join *)

\* the order of the states of ygm_main
PhaseOrder ==
  <<"Init", "Phase1", "Barrier1", "Phase2", "Barrier2", "Phase3", "Barrier3",
    "Phase4", "Barrier4", "Report", "Done">>

Failed(r) == pc[r] \in {"FailedLocal", "Aborted"}

\* C19: with valid arguments, every step of a rank takes it from one state of
\* Init, Phase1, Barrier1, Phase2, Barrier2, Phase3, Barrier3, Phase4,
\* Barrier4, Report, Done to the next one (or the rank fails), and when
\* messages keep being delivered either some rank fails or every rank
\* eventually is Done.
C19_Termination ==
  /\ [][ \A r \in Rank :
           pc'[r] # pc[r] =>
             \/ pc'[r] \in {"FailedLocal", "Aborted"}
             \/ \E i \in 1 .. (Len(PhaseOrder) - 1) :
                  pc[r] = PhaseOrder[i] /\ pc'[r] = PhaseOrder[i + 1] ]_vars
  /\ (~ConfigInvalid) ~> (AllDone \/ \E r \in Rank : Failed(r))
  /\ [](AllDone => [](AllDone))

C19_Witness ==
  /\ AllDone
  /\ ~ConfigInvalid
  /\ \A r \in Rank : errorCode[r] = 0
  /\ \E r \in Rank : Len(lhsVec[r]) > 0 /\ Len(rhsVec[r]) > 0
  /\ \E r \in Rank : Len(lhsVec[r]) = 0


\* C20: when a rank has failed although the arguments are valid, its failing
\* step sent no message and changed nothing on another rank, no rank is ever
\* Done, and every rank that has not failed ends up waiting in a barrier
\* (the first one when the failure was local) and stays there.
C20_NoFailureConsensus ==
  /\ [][ \A r \in Rank :
           (pc'[r] = "FailedLocal" /\ pc[r] # "FailedLocal") =>
             /\ net' = net
             /\ \A q \in Rank \ {r} :
                  /\ pc'[q] = pc[q]
                  /\ errorCode'[q] = errorCode[q]
                  /\ returned'[q] = returned[q]
                  /\ joinIndex'[q] = joinIndex[q] ]_vars
  /\ []((~ConfigInvalid /\ \E r \in Rank : Failed(r)) =>
          \A q \in Rank : pc[q] \notin {"Report", "Done"})
  /\ []((~ConfigInvalid /\ \E r \in Rank : pc[r] = "FailedLocal") =>
          \A q \in Rank : pc[q] \in {"Init", "Phase1", "Barrier1", "FailedLocal"})
  /\ (~ConfigInvalid /\ \E r \in Rank : pc[r] = "FailedLocal")
       ~> [](\A q \in Rank : pc[q] \in {"Barrier1", "FailedLocal"})
  /\ (\E r \in Rank : pc[r] = "Aborted")
       ~> [](\A q \in Rank : pc[q] \in {"Barrier4", "Aborted"})

C20_Witness ==
  \E r \in Rank, q \in Rank :
    /\ ~ConfigInvalid
    /\ pc[r] = "FailedLocal"
    /\ errorCode[r] = 1
    /\ pc[q] = "Barrier1"
    /\ errorCode[q] = 0
    /\ net[q][r] # <<>>

-----------------------------------------------------------------------------
(* Rows that share a key *)

\* C21: when the join has completed on every rank, for every join-key value
\* carried by m selected left rows and n selected right rows, wherever those
\* rows are placed, the output holds exactly m * n records made from a left
\* row with that value.
C21_CartesianProduct ==
  AllDone =>
    \A l0 \in LeftRows :
      LET Carries(row) ==
            \A i \in 1 .. Len(lhsOn) :
              /\ Contains(RowL(l0).o, lhsOn[i])
              /\ Contains(row.o, lhsOn[i])
              /\ JsonEq(ValueAt(RowL(l0).o, lhsOn[i]), ValueAt(row.o, lhsOn[i]))
          m == Cardinality({ l \in LeftRows : Carries(RowL(l)) })
          n == Cardinality({ r \in RightRows : Match(RowL(l0), RowR(r)) })
          made == { i \in 1 .. Len(AllOut) :
                      ~AllOut[i].stale /\ Carries(RowL(AllOut[i].lsrc)) }
      IN Carries(RowL(l0)) => Cardinality(made) = m * n

-----------------------------------------------------------------------------
(* The fields of a joined record *)

\* C22: in every joined record each key is the name of a copied left field
\* followed by "_l" or of a copied right field followed by "_r", with that
\* field's value; no key occurs twice; every "_l" key stands before every "_r"
\* key; and the keys of one side stand in the order of the source record, or
\* of the projection list when one is given.
C22_FieldNamingAndOrder ==
  \A o \in Joined :
    LET rec == o.rec
        SideOk(i, suffix, row, projlst) ==
          /\ EndsWith(rec[i][1], suffix)
          /\ Contains(row.o, Stem(rec[i][1]))
          /\ rec[i][2] = ValueAt(row.o, Stem(rec[i][1]))
        Before(a, b, row, projlst) ==
          IF projlst = <<>> THEN Find(row.o, a) < Find(row.o, b)
          ELSE FirstAt(a, projlst) < FirstAt(b, projlst)
        Copied(row, projlst, suffix) ==
          { name \o suffix : name \in { n \in Keys(row.o) : Listed(n, projlst) } }
    IN /\ \A i \in 1 .. Len(rec) :
            \/ SideOk(i, "_l", RowL(o.lsrc), projLhs)
            \/ SideOk(i, "_r", RowR(o.rsrc), projRhs)
       /\ Keys(rec) = Copied(RowL(o.lsrc), projLhs, "_l") \cup Copied(RowR(o.rsrc), projRhs, "_r")
       /\ Copied(RowL(o.lsrc), projLhs, "_l") \cap Copied(RowR(o.rsrc), projRhs, "_r") = {}
       /\ \A i, j \in 1 .. Len(rec) :
            i < j =>
              /\ rec[i][1] # rec[j][1]
              /\ ~(EndsWith(rec[i][1], "_r") /\ EndsWith(rec[j][1], "_l"))
              /\ (EndsWith(rec[i][1], "_l") /\ EndsWith(rec[j][1], "_l")) =>
                   Before(Stem(rec[i][1]), Stem(rec[j][1]), RowL(o.lsrc), projLhs)
              /\ (EndsWith(rec[i][1], "_r") /\ EndsWith(rec[j][1], "_r")) =>
                   Before(Stem(rec[i][1]), Stem(rec[j][1]), RowR(o.rsrc), projRhs)

C22_Witness ==
  \E o \in Joined :
    /\ Len(o.rec) = 3
    /\ projLhs = <<"c", "k", "c", "z">>
    /\ projRhs = <<"b", "b">>
    /\ o.rec[1][1] = "c_l"
    /\ o.rec[3][1] = "b_r"

-----------------------------------------------------------------------------
(* The index after phase 1 *)

\* C23: when every rank has passed the first barrier, the index entries of a
\* side, taken over all ranks, name every selected row of that side by its
\* owner rank and position exactly once and name no other row, and the hash of
\* an entry is the hash of its row under the side's join columns.
C23_IndexExactlyOnce ==
  (\A r \in Rank : pc[r] = "Phase2") =>
    LET lhs == [r \in Rank |-> joinIndex[r].lhsData]
        rhs == [r \in Rank |-> joinIndex[r].rhsData]
        At2(f) == UNION { { f[r][i] : i \in 1 .. Len(f[r]) } : r \in Rank }
        Owner(e) == <<e.owner_rank, e.owner_index>>
    IN /\ SumLen(lhs, Rank) = Cardinality(LeftRows)
       /\ { Owner(e) : e \in At2(lhs) } = LeftRows
       /\ \A e \in At2(lhs) : e.hash = computeHash(RowL(Owner(e)), lhsOn, e.owner_rank)
       /\ SumLen(rhs, Rank) = Cardinality(RightRows)
       /\ { Owner(e) : e \in At2(rhs) } = RightRows
       /\ \A e \in At2(rhs) : e.hash = computeHash(RowR(Owner(e)), rhsOn, e.owner_rank)

C23_Witness ==
  /\ \A r \in Rank : pc[r] = "Phase2"
  /\ \A r \in Rank : joinIndex[r].lhsData # <<>> \/ joinIndex[r].rhsData # <<>>
  /\ \E r \in Rank : \E e \in IndexEntries(r) : e.owner_rank # r
  /\ SumLen(lhsVec, Rank) > Cardinality(LeftRows)
  /\ SumLen(rhsVec, Rank) > Cardinality(RightRows)

-----------------------------------------------------------------------------
(* Indices travel to the rank that owns the rows *)

\* C24: every right index of a candidate stored on a rank, or in flight to
\* it, is the position of a selected row of that rank's right shard, and
\* every left index of a payload stored on a rank, or in flight to it, is the
\* position of a selected row of that rank's left shard.
C24_IndexLocality ==
  LET RightOk(d, ri) ==
        \A i \in 1 .. Len(ri) : ri[i] \in Selected(rhsVec[d], args.right_selected)
      LeftOk(d, li) ==
        \A i \in 1 .. Len(li) : li[i] \in Selected(lhsVec[d], args.left_selected)
  IN /\ \A r \in Rank :
          /\ \A c \in 1 .. Len(mergeCandidates[r]) :
               RightOk(r, mergeCandidates[r][c].local_data)
          /\ \A e \in 1 .. Len(joinData[r]) : LeftOk(r, joinData[r][e].indices)
     /\ \A s \in Rank, d \in Rank : \A m \in 1 .. Len(net[s][d]) :
          /\ net[s][d][m].type = "cand" => RightOk(d, net[s][d][m].ri)
          /\ net[s][d][m].type = "data" => LeftOk(d, net[s][d][m].indices)

C24_Witness ==
  \E r \in Rank : \E q \in Rank \ {r} :
    /\ Len(lhsVec[r]) > Len(lhsVec[q])
    /\ \E e \in 1 .. Len(joinData[r]) :
         /\ joinData[r][e].indices # <<>>
         /\ \E k \in 1 .. Len(joinData[r][e].src) : joinData[r][e].src[k][1] = q
    /\ SumLen(lhsVec, Rank) > Cardinality(LeftRows)

-----------------------------------------------------------------------------
(* The candidates a rank sends in phase 2 *)

\* C25: the phase-2 step of a rank sends (or stores, for itself), for every
\* hash h that both sides of its index hold and every owner d of a right
\* entry with hash h, exactly one bundle to d, whose right indices are the
\* positions of the right entries (h, d) and whose left refs are the owners
\* and positions of all left entries with hash h; it sends nothing else, and
\* no bundle has an empty side.
C25_CandidateMatcher ==
  [][ \A r \in Rank :
        (pc[r] = "Phase2" /\ pc'[r] = "Barrier2") =>
          LET ls == joinIndex[r].lhsData
              rs == joinIndex[r].rhsData
              LeftOf(h) == { i \in 1 .. Len(ls) : ls[i].hash = h }
              RightOf(h, d) == { i \in 1 .. Len(rs) : rs[i].hash = h /\ rs[i].owner_rank = d }
              Common == { ls[i].hash : i \in 1 .. Len(ls) } \cap { rs[i].hash : i \in 1 .. Len(rs) }
              Expected(d) ==
                { << { rs[i].owner_index : i \in RightOf(h, d) },
                     { <<ls[i].owner_rank, ls[i].owner_index>> : i \in LeftOf(h) },
                     Cardinality(RightOf(h, d)), Cardinality(LeftOf(h)) >> :
                    h \in { g \in Common : RightOf(g, d) # {} } }
              Sent(d) ==
                IF d = r
                THEN SubSeq(mergeCandidates'[r], Len(mergeCandidates[r]) + 1,
                            Len(mergeCandidates'[r]))
                ELSE [i \in 1 .. (Len(net'[r][d]) - Len(net[r][d])) |->
                        [local_data  |-> net'[r][d][Len(net[r][d]) + i].ri,
                         remote_data |-> net'[r][d][Len(net[r][d]) + i].li]]
              Shape(b) ==
                << { b.local_data[i] : i \in 1 .. Len(b.local_data) },
                   { <<b.remote_data[i].owner, b.remote_data[i].index>> :
                       i \in 1 .. Len(b.remote_data) },
                   Len(b.local_data), Len(b.remote_data) >>
          IN \A d \in Rank :
               /\ { Shape(Sent(d)[i]) : i \in 1 .. Len(Sent(d)) } = Expected(d)
               /\ Len(Sent(d)) = Cardinality(Expected(d))
               /\ \A i \in 1 .. Len(Sent(d)) :
                    Sent(d)[i].local_data # <<>> /\ Sent(d)[i].remote_data # <<>>
               /\ \A i \in 1 .. (Len(net'[r][d]) - Len(net[r][d])) :
                    net'[r][d][Len(net[r][d]) + i].type = "cand" ]_vars

C25_Witness ==
  \E r \in Rank : \E d \in Rank \ {r} :
    /\ pc[r] = "Barrier2"
    /\ mergeCandidates[r] # <<>>
    /\ \E m \in 1 .. Len(net[r][d]) :
         /\ net[r][d][m].type = "cand"
         /\ Len(net[r][d][m].li) = 2

-----------------------------------------------------------------------------
(* The payloads a rank sends in phase 3 *)

-----------------------------------------------------------------------------
(* Where a joined record is written *)

-----------------------------------------------------------------------------
(* Handlers and the vector a rank is walking *)

\* C28: nothing is appended to the index of a rank once that rank is in phase
\* 2, to its candidates once it is in phase 3, or to its payloads once it is
\* in phase 4: a message waiting for a rank in phase 2 is a candidate bundle,
\* one waiting for a rank in phase 3 is a payload, none waits for a rank in
\* phase 4, and the rank's own sends store only into the vector of the phase
\* they belong to.
C28_NoAppendWhileTraversed ==
  /\ [](\A r \in Rank : \A s \in Rank : \A m \in 1 .. Len(net[s][r]) :
          /\ pc[r] = "Phase2" => net[s][r][m].type = "cand"
          /\ pc[r] = "Phase3" => net[s][r][m].type = "data"
          /\ pc[r] # "Phase4")
  /\ [][ \A r \in Rank :
           /\ (joinIndex'[r] # joinIndex[r] /\ joinIndex'[r] # EmptyIndex) =>
                pc[r] \in {"Init", "Phase1", "Barrier1"}
           /\ (mergeCandidates'[r] # mergeCandidates[r] /\ mergeCandidates'[r] # <<>>) =>
                pc[r] \in {"Phase2", "Barrier2"}
           /\ (joinData'[r] # joinData[r] /\ joinData'[r] # <<>>) =>
                pc[r] \in {"Phase3", "Barrier3"} ]_vars

C28_Witness ==
  \E r \in Rank : \E s \in Rank \ {r} :
    /\ pc[r] = "Phase3"
    /\ pc[s] = "Barrier3"
    /\ mergeCandidates[r] # <<>>
    /\ net[s][r] # <<>>
    /\ Head(net[s][r]).type = "data"

-----------------------------------------------------------------------------
(* The barrier between phase 2 and phase 3 *)

C31_AtMostNumrowsCalls ==
  LET c == selCall
  IN c.state # "none" =>
       /\ Len(c.calls) <= c.limit
       /\ Len(c.calls) = c.limit =>
            c.rownum = (IF c.calls = <<>> THEN 0 ELSE c.calls[Len(c.calls)].rownum)


\* C32: when forAllSelected reaches a row that is not a JSON object it
\* raises instead of calling fn for that row or a later one; the selected
\* rows before it have been passed to fn; a non-object row after the row at
\* which the limit ended the loop is not inspected and raises nothing. In
\* states: the call has raised exactly at a non-object row, with every row
\* before it an object, every call for a row before it and fewer calls made
\* than the limit; no step follows a raise; a call that returned saw only
\* object rows, up to and including the row where it stopped.
C32_DataShapeError ==
  /\ [](LET c == selCall
            IsObject(i) == c.dataset[i].t = "obj"
            Holds(i) ==
              \A q \in 1 .. Len(c.predicates) :
                LET kvs == c.dataset[i].o
                    col == c.predicates[q][1]
                IN (IF \E n \in 1 .. Len(kvs) : kvs[n][1] = col
                    THEN kvs[CHOOSE n \in 1 .. Len(kvs) : kvs[n][1] = col][2]
                    ELSE CASE col = "rowid" -> JInt(i - 1)
                           [] col = "mpiid" -> JInt(c.rank)
                           [] OTHER         -> JNull) = c.predicates[q][2]
            Shape ==
              /\ c.state = "raised" =>
                   /\ c.pos <= Len(c.dataset)
                   /\ ~IsObject(c.pos)
                   /\ Len(c.calls) < c.limit
                   /\ \A i \in 1 .. (c.pos - 1) : IsObject(i)
                   /\ \A n \in 1 .. Len(c.calls) : c.calls[n].rownum + 1 < c.pos
                   /\ \A i \in 1 .. (c.pos - 1) :
                        Holds(i) => \E n \in 1 .. Len(c.calls) : c.calls[n].rownum + 1 = i
              /\ c.state \in {"running", "returned"} =>
                   \A i \in 1 .. (c.pos - 1) : IsObject(i)
              /\ (c.state = "returned" /\ c.pos <= Len(c.dataset)) =>
                   /\ IsObject(c.pos)
                   /\ Len(c.calls) = c.limit
        IN Shape)
  /\ [][selCall.state = "raised" => selCall' = selCall]_vars


\* C33: projecting a record through a non-empty projection list yields an
\* object with exactly the listed fields that the record has, each with the
\* record's value, in the order of the list (a field named twice stands where
\* it is named first); projecting through an empty list yields all fields of
\* the record.
C33_RowProjection ==
  LET rec == hin.v1.o
      lst == hin.sel1
      Has(col) == \E n \in 1 .. Len(rec) : rec[n][1] = col
      Val(col) == rec[CHOOSE n \in 1 .. Len(rec) : rec[n][1] = col][2]
      want[i \in 0 .. Len(lst)] ==
        IF i = 0 THEN <<>>
        ELSE IF Has(lst[i]) /\ ~(\E j \in 1 .. (i - 1) : lst[j] = lst[i])
             THEN Append(want[i - 1], <<lst[i], Val(lst[i])>>)
             ELSE want[i - 1]
  IN hout.op = "projectJsonEntry" =>
       hout.h1 = (IF lst = <<>> THEN hin.v1 ELSE [t |-> "obj", o |-> want[Len(lst)]])


\* C34: when no row is filtered out, getSelectedRows returns the same index
\* list on both of its paths: without a selection state 0, 1, ...,
\* min(numrows, size) - 1, and that is what computeSelected returns for an
\* empty predicate list on a dataset of object rows with the same numrows,
\* for every numrows >= 0 and every size.
C34_BothPathsAgree ==
  (/\ selCall.state = "returned"
   /\ selCall.predicates = <<>>
   /\ \A i \in 1 .. Len(selCall.dataset) : selCall.dataset[i].t = "obj")
  => /\ getSelectedRows(FALSE) =
          [i \in 1 .. (IF selCall.limit < Len(selCall.dataset)
                       THEN selCall.limit ELSE Len(selCall.dataset)) |-> i - 1]
     /\ getSelectedRows(TRUE) = getSelectedRows(FALSE)

====
